---- MODULE Spec2Model ----
(***************************************************************************)
(* Model of the SEO analysis pipeline of the enhanced analyzer             *)
(* (src/unnamed/part_000 lines 294-1155, the copy of api/seo/seoanalyze.ts *)
(* that scores eight dimensions): handler -> normalizeUrl ->               *)
(* enhancedAnalyzeSEO (axios fetch, puppeteer fallback) -> analyzers ->    *)
(* calculateOverallScore -> generateEnhancedRecommendations.               *)
(*                                                                         *)
(* Strings are sequences of chunks (a chunk is a word, a punctuation mark  *)
(* or a URL part), so that trim, startsWith, includes and template         *)
(* literals are computed on the text and not assumed.                      *)
(***************************************************************************)
EXTENDS Integers, Sequences, FiniteSets, TLC

VARIABLES
    pc,                \* position of the request inside handler / enhancedAnalyzeSEO
    req,               \* the incoming request: method and body
    normalizedUrl,     \* handler's normalizedUrl, enhancedAnalyzeSEO's url
    fetchMethod,       \* enhancedAnalyzeSEO's local fetchMethod
    browser,           \* enhancedAnalyzeSEO's local browser: "null", "open", "closed"
    html,              \* the fetched document (what cheerio.load will see)
    axiosError,        \* the value the static fetch rejected with, or NoError
    caught,            \* the value the outer catch of enhancedAnalyzeSEO received
    outcome,           \* how enhancedAnalyzeSEO settles: "pending", "return", "throw"
    report,            \* the report enhancedAnalyzeSEO returns
    errorMessage,      \* message of the Error enhancedAnalyzeSEO / normalizeUrl throws
    responses,         \* the HTTP responses sent on res, in order
    events,            \* history of fetch attempts and of what they did
    arg,               \* input of the function under study (function-level runs)
    ret,               \* its result
    parked             \* the locals of a second invocation that waits at an await

vars == <<pc, req, normalizedUrl, fetchMethod, browser, html, axiosError, caught,
          outcome, report, errorMessage, responses, events, arg, ret, parked>>

\* ------------------------------------------------------------------------
\* Bounds
\* ------------------------------------------------------------------------
MaxPad == 2      \* most leading / trailing blanks put around a URL input
MaxDims == 3     \* longest list of dimension scores given to calculateOverallScore

\* ------------------------------------------------------------------------
\* Strings as chunk sequences
\* ------------------------------------------------------------------------
\* String.prototype.startsWith
StartsWith(s, p) == Len(s) >= Len(p) /\ SubSeq(s, 1, Len(p)) = p

\* String.prototype.includes
Includes(s, p) == \E i \in 1..(Len(s) - Len(p) + 1) : SubSeq(s, i, i + Len(p) - 1) = p

RECURSIVE TrimStart(_)
TrimStart(s) == IF s # <<>> /\ Head(s) = " " THEN TrimStart(Tail(s)) ELSE s

RECURSIVE TrimEnd(_)
TrimEnd(s) == IF s # <<>> /\ s[Len(s)] = " " THEN TrimEnd(SubSeq(s, 1, Len(s) - 1)) ELSE s

\* String.prototype.trim
Trim(s) == TrimEnd(TrimStart(s))

\* String.prototype.toLowerCase on one chunk
LowerChunk(c) ==
    CASE c = "Example.com" -> "example.com"
      [] c = "HTTP://"     -> "http://"
      [] OTHER             -> c

\* Math.floor in place of Math.round
MathRound_floor(n, d) == n \div d

\* Math.round(n / d) for d > 0: the nearest integer, a tie going up
MathRound(n, d) == (2 * n + d) \div (2 * d)

\* ------------------------------------------------------------------------
\* normalizeUrl
\* ------------------------------------------------------------------------
HostChunks == {"example.com", "Example.com"}
SchemeChunks == {"http://", "https://"}

\* the chunks of s before the first path chunk
RECURSIVE HostRun(_)
HostRun(s) == IF s = <<>> \/ Head(s) = "/path" THEN <<>> ELSE <<Head(s)>> \o HostRun(Tail(s))

\* percent-encoding of blanks in a path
PathEncode(s) == [i \in 1..Len(s) |-> IF s[i] = " " THEN "%20" ELSE s[i]]

\* new URL(s).href for s = scheme chunk followed by the rest; Invalid when the
\* constructor throws.  The host is lower-cased, an empty path becomes "/",
\* slashes after the scheme are skipped, and a second scheme in host position
\* is read as host "http" with an empty port followed by the path "//...".
Invalid == <<"TypeError", "Invalid", "URL">>
URLHref(s) ==
    LET rest == Tail(s)
        host == HostRun(rest)
        path == SubSeq(rest, Len(host) + 1, Len(rest))
    IN  IF rest = <<>> THEN Invalid
        ELSE IF host = <<>> THEN <<Head(s), "path", "/">>
        ELSE IF LowerChunk(Head(host)) \in SchemeChunks
             THEN <<Head(s), IF LowerChunk(Head(host)) = "http://" THEN "http" ELSE "https", "//">>
                  \o PathEncode(Tail(rest))
        ELSE IF \E i \in 1..Len(host) : host[i] \notin HostChunks THEN Invalid
        ELSE <<Head(s)>> \o [i \in 1..Len(host) |-> LowerChunk(host[i])]
             \o (IF path = <<>> THEN <<"/">> ELSE path)

\* the prefix step testing 'https://' only
Prefixed_httpsOnly(url) ==
    LET t == Trim(url)
    IN  IF ~StartsWith(t, <<"https://">>) THEN <<"https://">> \o t ELSE t

\* the url after the trim and the prefix step
Prefixed(url) ==
    LET t == Trim(url)
    IN  IF ~StartsWith(t, <<"http://">>) /\ ~StartsWith(t, <<"https://">>)
        THEN <<"https://">> \o t
        ELSE t

normalizeUrl(url) ==
    LET u == Prefixed(url)
        href == URLHref(u)
    IN  IF href = Invalid
        THEN [ok |-> FALSE, message |-> <<"Invalid", "URL", ":">> \o u]
        ELSE [ok |-> TRUE, href |-> href]

\* ------------------------------------------------------------------------
\* The parsed document.  Texts are sequences of words; a document is a record
\* of what the selectors of the analyzers read from it:
\*   title, description : words of <title> and of meta[name=description]
\*   h1                 : one text per 'body h1, body noscript h1' element
\*   h2Count, h3Count   : number of h2 / h3 elements
\*   viewport           : chunks of meta[name=viewport]'s content, <<>> if absent
\*   totalImages, imagesWithAlt : $('img').length, $('img[alt]').length
\*   imagesWithAltText : the img elements whose alt attribute is not empty
\*   bodyWords, noscriptWords   : words of the visible body text / of noscript
\*   sentencePieces     : bodyText.split(/[.!?]+/).length
\*   metaKeywords       : entries of meta[name=keywords]
\*   kwHits             : matches of \bkeyword\b in the text, summed over keywords
\*   canonical .. jsonLd: presence of the tags analyzeTechnicalSEO looks for
\*   internalLinks, externalLinks : matches of the two link selectors
\*   ogUrlUnsafe        : og:url content breaks the attribute selector built from it
\* ------------------------------------------------------------------------
WordLen(w) ==
    CASE w = "seo"          -> 3
      [] w = "(seo"         -> 4
      [] w = "guide"        -> 5
      [] w = "Guide"        -> 5
      [] w = "lorem"        -> 5
      [] w = "search"       -> 6
      [] w = "engine"       -> 6
      [] w = "Welcome"      -> 7
      [] w = "guidelines"   -> 10
      [] w = "optimization" -> 12
      [] OTHER              -> 1

\* toLowerCase on one word
Lower(w) ==
    CASE w = "Guide"   -> "guide"
      [] w = "Welcome" -> "welcome"
      [] OTHER         -> w

\* the keyword k occurs inside the (lower-cased) word w
OccursIn(k, w) == k = w \/ <<k, w>> \in {<<"guide", "guidelines">>, <<"seo", "(seo">>}

\* a keyword that is not a valid regular expression source
RegexUnsafe(k) == k = "(seo"

RECURSIVE SumLen(_)
SumLen(t) == IF t = <<>> THEN 0 ELSE WordLen(Head(t)) + SumLen(Tail(t))

\* length of a text whose words are separated by single blanks
TextLen(t) == IF t = <<>> THEN 0 ELSE SumLen(t) + Len(t) - 1

\* pageTitle.split(' ').filter(word => word.length > 3), pageTitle lower-cased
TitleKeywords(doc) ==
    {Lower(doc.title[i]) : i \in {j \in 1..Len(doc.title) : WordLen(doc.title[j]) > 3}}

\* keywords.some(keyword => text.toLowerCase().includes(keyword))
SomeKeywordIn(keywords, text) ==
    \E k \in keywords : \E i \in 1..Len(text) : OccursIn(k, Lower(text[i]))

RECURSIVE Join(_)
Join(texts) == IF texts = <<>> THEN <<>> ELSE Head(texts) \o Join(Tail(texts))

DetailedSEOScore(score, category, value, impact, context) ==
    [score |-> score, category |-> category, value |-> value,
     impact |-> impact, context |-> context]

analyzeTitleTag(doc) ==
    LET titleLength == TextLen(doc.title)
    IN  IF doc.title = <<>>
        THEN DetailedSEOScore(0, "Title Tag", <<"Missing">>, "negative",
                 <<"A title tag is crucial for SEO and user experience.">>)
        ELSE IF titleLength < 30
        THEN DetailedSEOScore(100 - 30, "Title Tag", <<ToString(titleLength)>>, "negative",
                 <<"Title is too short. Aim for 30-60 characters.">>)
        ELSE IF titleLength > 60
        THEN DetailedSEOScore(100 - 15, "Title Tag", <<ToString(titleLength)>>, "negative",
                 <<"Title may be truncated in search results.">>)
        ELSE DetailedSEOScore(100, "Title Tag", <<ToString(titleLength)>>, "positive",
                 <<"Title length is optimal.">>)

\* the description never compared with the title keywords
analyzeMetaDescription_noKeyword(doc) ==
    LET descLength == TextLen(doc.description)
        base == IF descLength < 120
                THEN [score |-> 100 - 20, impact |-> "negative",
                      context |-> <<"Meta description is too short. Aim for 120-160 characters.">>]
                ELSE IF descLength > 160
                THEN [score |-> 100 - 10, impact |-> "neutral",
                      context |-> <<"Meta description exceeds 160 characters. Consider shortening it for optimal display in search results.">>]
                ELSE [score |-> 100, impact |-> "positive",
                      context |-> <<"Meta description length is optimal.">>]
        keywordInDescription == SomeKeywordIn(TitleKeywords(doc), doc.description)
    IN  IF doc.description = <<>>
        THEN DetailedSEOScore(0, "Meta Description", <<"Missing">>, "negative",
                 <<"A meta description is crucial for SEO and click-through rates.">>)
        ELSE IF FALSE
        THEN DetailedSEOScore(base.score - 10, "Meta Description", <<ToString(descLength)>>,
                 base.impact,
                 base.context \o <<"Consider including a relevant keyword from the title in the meta description.">>)
        ELSE DetailedSEOScore(base.score, "Meta Description", <<ToString(descLength)>>,
                 base.impact, base.context)

analyzeMetaDescription(doc) ==
    LET descLength == TextLen(doc.description)
        base == IF descLength < 120
                THEN [score |-> 100 - 20, impact |-> "negative",
                      context |-> <<"Meta description is too short. Aim for 120-160 characters.">>]
                ELSE IF descLength > 160
                THEN [score |-> 100 - 10, impact |-> "neutral",
                      context |-> <<"Meta description exceeds 160 characters. Consider shortening it for optimal display in search results.">>]
                ELSE [score |-> 100, impact |-> "positive",
                      context |-> <<"Meta description length is optimal.">>]
        keywordInDescription == SomeKeywordIn(TitleKeywords(doc), doc.description)
    IN  IF doc.description = <<>>
        THEN DetailedSEOScore(0, "Meta Description", <<"Missing">>, "negative",
                 <<"A meta description is crucial for SEO and click-through rates.">>)
        ELSE IF ~keywordInDescription
        THEN DetailedSEOScore(base.score - 10, "Meta Description", <<ToString(descLength)>>,
                 base.impact,
                 base.context \o <<"Consider including a relevant keyword from the title in the meta description.">>)
        ELSE DetailedSEOScore(base.score, "Meta Description", <<ToString(descLength)>>,
                 base.impact, base.context)

\* the H1 text not compared with the title keywords
analyzeHeadings_noKeyword(doc) ==
    LET h1Count == Len(doc.h1)
        s1 == IF h1Count = 0
              THEN [score |-> 100 - 30, impact |-> "negative",
                    context |-> <<"Missing H1 heading. Each page should have exactly one H1 tag.">>]
              ELSE IF h1Count > 1
              THEN [score |-> 100 - 15, impact |-> "negative",
                    context |-> <<"Multiple H1 headings found (", ToString(h1Count),
                                  "). Consider using only one H1 tag per page.">>]
              ELSE [score |-> 100, impact |-> "positive", context |-> <<"Proper H1 usage.">>]
        s2 == IF doc.h2Count = 0
              THEN [score |-> s1.score - 10,
                    context |-> s1.context \o <<"No H2 headings found. Consider using H2 tags to structure your content.">>]
              ELSE [score |-> s1.score,
                    context |-> s1.context \o <<"Good use of H2 headings (", ToString(doc.h2Count), "found).">>]
    IN  DetailedSEOScore(s2.score, "Heading Structure",
            <<"H1:", ToString(h1Count), "H2:", ToString(doc.h2Count), "H3:", ToString(doc.h3Count)>>,
            s1.impact, s2.context)

analyzeHeadings(doc) ==
    LET h1Count == Len(doc.h1)
        s1 == IF h1Count = 0
              THEN [score |-> 100 - 30, impact |-> "negative",
                    context |-> <<"Missing H1 heading. Each page should have exactly one H1 tag.">>]
              ELSE IF h1Count > 1
              THEN [score |-> 100 - 15, impact |-> "negative",
                    context |-> <<"Multiple H1 headings found (", ToString(h1Count),
                                  "). Consider using only one H1 tag per page.">>]
              ELSE [score |-> 100, impact |-> "positive", context |-> <<"Proper H1 usage.">>]
        s2 == IF doc.h2Count = 0
              THEN [score |-> s1.score - 10,
                    context |-> s1.context \o <<"No H2 headings found. Consider using H2 tags to structure your content.">>]
              ELSE [score |-> s1.score,
                    context |-> s1.context \o <<"Good use of H2 headings (", ToString(doc.h2Count), "found).">>]
        keywordInH1 == SomeKeywordIn(TitleKeywords(doc), Join(doc.h1))
        s3 == IF ~keywordInH1 /\ h1Count > 0
              THEN [score |-> s2.score - 10,
                    context |-> s2.context \o <<"Consider including a relevant keyword from the title in the H1 tag.">>]
              ELSE s2
    IN  DetailedSEOScore(s3.score, "Heading Structure",
            <<"H1:", ToString(h1Count), "H2:", ToString(doc.h2Count), "H3:", ToString(doc.h3Count)>>,
            s1.impact, s3.context)

\* the 25-point penalty only for a viewport that lacks both tokens
analyzeMobileFriendliness_lacksBoth(doc) ==
    IF doc.viewport = <<>>
    THEN DetailedSEOScore(100 - 50, "Mobile-Friendliness", <<"Not found">>, "negative",
             <<"No viewport meta tag found. This is crucial for mobile responsiveness.">>)
    ELSE IF ~Includes(doc.viewport, <<"width=device-width">>)
            /\ ~Includes(doc.viewport, <<"initial-scale=1">>)
    THEN DetailedSEOScore(100 - 25, "Mobile-Friendliness", doc.viewport, "negative",
             <<"Viewport meta tag is present but may not be optimally configured for mobile devices.">>)
    ELSE DetailedSEOScore(100, "Mobile-Friendliness", doc.viewport, "positive",
             <<"Viewport meta tag is properly configured for mobile devices.">>)

analyzeMobileFriendliness(doc) ==
    IF doc.viewport = <<>>
    THEN DetailedSEOScore(100 - 50, "Mobile-Friendliness", <<"Not found">>, "negative",
             <<"No viewport meta tag found. This is crucial for mobile responsiveness.">>)
    ELSE IF ~Includes(doc.viewport, <<"width=device-width">>)
            \/ ~Includes(doc.viewport, <<"initial-scale=1">>)
    THEN DetailedSEOScore(100 - 25, "Mobile-Friendliness", doc.viewport, "negative",
             <<"Viewport meta tag is present but may not be optimally configured for mobile devices.">>)
    ELSE DetailedSEOScore(100, "Mobile-Friendliness", doc.viewport, "positive",
             <<"Viewport meta tag is properly configured for mobile devices.">>)

analyzeLinkingStructure(doc) ==
    LET s1 == IF doc.internalLinks = 0
              THEN [score |-> 100 - 20, impact |-> "negative",
                    context |-> <<"No internal links found. Consider adding links to other pages on your site.">>]
              ELSE IF doc.internalLinks < 5
              THEN [score |-> 100 - 10, impact |-> "neutral",
                    context |-> <<"Few internal links found. Consider increasing internal linking.">>]
              ELSE [score |-> 100, impact |-> "positive",
                    context |-> <<"Good use of internal linking.">>]
        s2 == IF doc.externalLinks = 0
              THEN [score |-> s1.score - 10,
                    context |-> s1.context \o <<"No external links found. Consider adding links to authoritative sources.">>]
              ELSE [score |-> s1.score,
                    context |-> s1.context \o <<"Good use of external linking.">>]
    IN  DetailedSEOScore(s2.score, "Linking Structure",
            <<"Internal:", ToString(doc.internalLinks), "External:", ToString(doc.externalLinks)>>,
            s1.impact, s2.context)

\* combinedText.split(/\s+/).length for `${bodyText} ${noscriptContent}`: an
\* empty side still contributes one (empty) piece
WordCount(doc) ==
    (IF doc.bodyWords = 0 THEN 1 ELSE doc.bodyWords)
    + (IF doc.noscriptWords = 0 THEN 1 ELSE doc.noscriptWords)

AllKeywords(doc) == doc.metaKeywords \cup TitleKeywords(doc)

\* a noscript bonus of 10
analyzeContentQuality_bonus10(doc) ==
    LET wordCount == WordCount(doc)
        s1 == IF wordCount < 300
              THEN [score |-> 100 - 30, impact |-> "negative",
                    context |-> <<"Content length is too short. Aim for at least 300 words of quality content.">>]
              ELSE IF wordCount < 600
              THEN [score |-> 100 - 15, impact |-> "neutral",
                    context |-> <<"Content length is moderate. Consider expanding to at least 600 words for more comprehensive coverage.">>]
              ELSE [score |-> 100, impact |-> "positive", context |-> <<"Good content length.">>]
        s2 == IF doc.noscriptWords > 0
              THEN [score |-> s1.score + 10,
                    context |-> s1.context \o <<"Noscript content present, which is good for accessibility and SEO.">>]
              ELSE [score |-> s1.score, context |-> s1.context]
        hits == IF AllKeywords(doc) = {} THEN 0 ELSE doc.kwHits
        s3 == IF 100 * hits < wordCount
              THEN [score |-> s2.score - 10,
                    context |-> s2.context \o <<"Keyword density is low. Consider naturally incorporating more relevant keywords.">>]
              ELSE IF 100 * hits > 3 * wordCount
              THEN [score |-> s2.score - 5,
                    context |-> s2.context \o <<"Keyword density is high. Ensure the content reads naturally and isn't over-optimized.">>]
              ELSE [score |-> s2.score,
                    context |-> s2.context \o <<"Good keyword usage and density.">>]
        s4 == IF wordCount > 20 * doc.sentencePieces
              THEN [score |-> s3.score - 10,
                    context |-> s3.context \o <<"Average sentence length is high. Consider shortening sentences for better readability.">>]
              ELSE s3
    IN  DetailedSEOScore(s4.score, "Content Quality",
            <<"Word count:", ToString(wordCount), "Avg words per sentence (tenths):",
              ToString(MathRound(10 * wordCount, doc.sentencePieces))>>,
            s1.impact, s4.context)

analyzeContentQuality(doc) ==
    LET wordCount == WordCount(doc)
        s1 == IF wordCount < 300
              THEN [score |-> 100 - 30, impact |-> "negative",
                    context |-> <<"Content length is too short. Aim for at least 300 words of quality content.">>]
              ELSE IF wordCount < 600
              THEN [score |-> 100 - 15, impact |-> "neutral",
                    context |-> <<"Content length is moderate. Consider expanding to at least 600 words for more comprehensive coverage.">>]
              ELSE [score |-> 100, impact |-> "positive", context |-> <<"Good content length.">>]
        s2 == IF doc.noscriptWords > 0
              THEN [score |-> s1.score + 5,
                    context |-> s1.context \o <<"Noscript content present, which is good for accessibility and SEO.">>]
              ELSE [score |-> s1.score, context |-> s1.context]
        hits == IF AllKeywords(doc) = {} THEN 0 ELSE doc.kwHits
        s3 == IF 100 * hits < wordCount
              THEN [score |-> s2.score - 10,
                    context |-> s2.context \o <<"Keyword density is low. Consider naturally incorporating more relevant keywords.">>]
              ELSE IF 100 * hits > 3 * wordCount
              THEN [score |-> s2.score - 5,
                    context |-> s2.context \o <<"Keyword density is high. Ensure the content reads naturally and isn't over-optimized.">>]
              ELSE [score |-> s2.score,
                    context |-> s2.context \o <<"Good keyword usage and density.">>]
        s4 == IF wordCount > 20 * doc.sentencePieces
              THEN [score |-> s3.score - 10,
                    context |-> s3.context \o <<"Average sentence length is high. Consider shortening sentences for better readability.">>]
              ELSE s3
    IN  DetailedSEOScore(s4.score, "Content Quality",
            <<"Word count:", ToString(wordCount), "Avg words per sentence (tenths):",
              ToString(MathRound(10 * wordCount, doc.sentencePieces))>>,
            s1.impact, s4.context)

\* issues.join(', ')
RECURSIVE JoinComma(_)
JoinComma(issues) ==
    IF Len(issues) <= 1 THEN issues
    ELSE <<Head(issues), ",">> \o JoinComma(Tail(issues))

\* the Open Graph penalty only when all three tags are missing
analyzeTechnicalSEO_noOpenGraph(doc) ==
    LET checks == << [missing |-> ~doc.canonical,   cost |-> 10, issue |-> "No canonical tag found"],
                     [missing |-> doc.viewport = <<>>, cost |-> 10, issue |-> "No viewport meta tag found"],
                     [missing |-> ~doc.robots,      cost |-> 5,  issue |-> "No robots meta tag found"],
                     [missing |-> ~doc.ogTitle /\ ~doc.ogDescription /\ ~doc.ogImage,
                                                    cost |-> 5,  issue |-> "Incomplete Open Graph tags"],
                     [missing |-> ~doc.twitterCard, cost |-> 5,  issue |-> "No Twitter Card meta tag found"],
                     [missing |-> ~doc.jsonLd,      cost |-> 10, issue |-> "No structured data (JSON-LD) found"] >>
        found == SelectSeq(checks, LAMBDA c : c.missing)
        issues == [i \in 1..Len(found) |-> found[i].issue]
        RECURSIVE Cost(_)
        Cost(cs) == IF cs = <<>> THEN 0 ELSE Head(cs).cost + Cost(Tail(cs))
        score == 100 - Cost(found)
        impact == IF score < 70 THEN "negative" ELSE IF score < 90 THEN "neutral" ELSE "positive"
    IN  DetailedSEOScore(score, "Technical SEO", <<ToString(score)>>, impact,
            IF Len(issues) > 0 THEN <<"Issues found:">> \o JoinComma(issues)
            ELSE <<"No major technical issues found">>)

analyzeTechnicalSEO(doc) ==
    LET checks == << [missing |-> ~doc.canonical,   cost |-> 10, issue |-> "No canonical tag found"],
                     [missing |-> doc.viewport = <<>>, cost |-> 10, issue |-> "No viewport meta tag found"],
                     [missing |-> ~doc.robots,      cost |-> 5,  issue |-> "No robots meta tag found"],
                     [missing |-> ~doc.ogTitle \/ ~doc.ogDescription \/ ~doc.ogImage,
                                                    cost |-> 5,  issue |-> "Incomplete Open Graph tags"],
                     [missing |-> ~doc.twitterCard, cost |-> 5,  issue |-> "No Twitter Card meta tag found"],
                     [missing |-> ~doc.jsonLd,      cost |-> 10, issue |-> "No structured data (JSON-LD) found"] >>
        found == SelectSeq(checks, LAMBDA c : c.missing)
        issues == [i \in 1..Len(found) |-> found[i].issue]
        RECURSIVE Cost(_)
        Cost(cs) == IF cs = <<>> THEN 0 ELSE Head(cs).cost + Cost(Tail(cs))
        score == 100 - Cost(found)
        impact == IF score < 70 THEN "negative" ELSE IF score < 90 THEN "neutral" ELSE "positive"
    IN  DetailedSEOScore(score, "Technical SEO", <<ToString(score)>>, impact,
            IF Len(issues) > 0 THEN <<"Issues found:">> \o JoinComma(issues)
            ELSE <<"No major technical issues found">>)

\* $('img').length and $('img[alt]').length: an img counts as having alt text
\* as soon as it has the attribute, also alt=""
analyzeImages(doc) ==
    IF doc.totalImages = 0
    THEN DetailedSEOScore(100, "Image Optimization", <<"0">>, "neutral",
             <<"No images found on the page.">>)
    ELSE IF doc.imagesWithAlt < doc.totalImages
    THEN DetailedSEOScore(
             100 - MathRound(50 * (doc.totalImages - doc.imagesWithAlt), doc.totalImages),
             "Image Optimization",
             <<ToString(100 * doc.imagesWithAlt), "/", ToString(doc.totalImages)>>, "negative",
             <<ToString(doc.totalImages - doc.imagesWithAlt), "out of", ToString(doc.totalImages),
               "images missing alt text.">>)
    ELSE DetailedSEOScore(100, "Image Optimization", <<"100">>, "positive",
             <<"All images have alt text.">>)

\* cheerio.load or an analyzer throws: a keyword that is no regular expression
\* (new RegExp in analyzeContentQuality) or an og:url that breaks the selector
\* of analyzeLinkingStructure
AnalysisThrows(doc) ==
    \/ \E k \in AllKeywords(doc) : RegexUnsafe(k)
    \/ doc.ogUrlUnsafe

\* ------------------------------------------------------------------------
\* calculateOverallScore
\* ------------------------------------------------------------------------
RECURSIVE TotalScore(_)
TotalScore(scores) == IF scores = <<>> THEN 0 ELSE Head(scores).score + TotalScore(Tail(scores))

\* a filter that keeps every dimension whose impact is not neutral
Explain_nonNeutral(scores, impact) ==
    LET kept == SelectSeq(scores, LAMBDA s : s.impact # "neutral")
    IN  [i \in 1..Len(kept) |-> <<kept[i].category, ":">> \o kept[i].context]

\* scores.filter(score => score.details.impact === impact)
\*       .map(score => `${score.category}: ${score.details.context}`)
Explain(scores, impact) ==
    LET kept == SelectSeq(scores, LAMBDA s : s.impact = impact)
    IN  [i \in 1..Len(kept) |-> <<kept[i].category, ":">> \o kept[i].context]

\* bands compared with > in place of >=
Interpretation_strict(overallScore) ==
    IF overallScore > 90 THEN "Excellent SEO optimization"
    ELSE IF overallScore > 80 THEN "Good SEO, with room for improvement"
    ELSE IF overallScore > 70 THEN "Average SEO, needs attention"
    ELSE "Poor SEO, requires significant improvements"

Interpretation(overallScore) ==
    IF overallScore >= 90 THEN "Excellent SEO optimization"
    ELSE IF overallScore >= 80 THEN "Good SEO, with room for improvement"
    ELSE IF overallScore >= 70 THEN "Average SEO, needs attention"
    ELSE "Poor SEO, requires significant improvements"

calculateOverallScore(scores) ==
    LET totalScore == TotalScore(scores)
        overallScore == MathRound(totalScore, Len(scores))
    IN  [score |-> overallScore,
         interpretation |-> Interpretation(overallScore),
         penalties |-> Explain(scores, "negative"),
         bonuses |-> Explain(scores, "positive")]

\* ------------------------------------------------------------------------
\* generateEnhancedRecommendations
\* ------------------------------------------------------------------------
\* context || fallback
OrElse(context, fallback) == IF context = <<>> THEN <<fallback>> ELSE context

\* the threshold compared with <= in place of <
Recommend_atThreshold(s, threshold, id, category, title, fallback, steps, additionalContext) ==
    IF s.score <= threshold
    THEN << [id |-> id, category |-> category,
             impact |-> IF s.score < 70 THEN "High" ELSE "Medium",
             title |-> title,
             description |-> OrElse(s.context, fallback),
             steps |-> steps,
             additionalContext |-> additionalContext] >>
    ELSE <<>>

\* the id made from the slug and the impact
Recommend_idByImpact(s, threshold, id, category, title, fallback, steps, additionalContext) ==
    IF s.score < threshold
    THEN << [id |-> IF s.score < 70 THEN "critical-" \o id ELSE id, category |-> category,
             impact |-> IF s.score < 70 THEN "High" ELSE "Medium",
             title |-> title,
             description |-> OrElse(s.context, fallback),
             steps |-> steps,
             additionalContext |-> additionalContext] >>
    ELSE <<>>

\* a score of 70 rated 'High'
Recommend_highAt70(s, threshold, id, category, title, fallback, steps, additionalContext) ==
    IF s.score < threshold
    THEN << [id |-> id, category |-> category,
             impact |-> IF s.score <= 70 THEN "High" ELSE "Medium",
             title |-> title,
             description |-> OrElse(s.context, fallback),
             steps |-> steps,
             additionalContext |-> additionalContext] >>
    ELSE <<>>

\* one score-triggered block: if (s.score < threshold) recommendations.push({...})
Recommend(s, threshold, id, category, title, fallback, steps, additionalContext) ==
    IF s.score < threshold
    THEN << [id |-> id, category |-> category,
             impact |-> IF s.score < 70 THEN "High" ELSE "Medium",
             title |-> title,
             description |-> OrElse(s.context, fallback),
             steps |-> steps,
             additionalContext |-> additionalContext] >>
    ELSE <<>>

\* the block keyed on the technical context
NoscriptRecommendation(s) ==
    IF Includes(s.context, <<"No noscript tag found">>)
       \/ Includes(s.context, <<"Empty noscript tag found">>)
    THEN << [id |-> "noscript-content-optimization", category |-> "Accessibility and SEO",
             impact |-> "Medium",
             title |-> "Improve Noscript Content",
             description |-> <<"Add or improve content within noscript tags">>,
             steps |-> <<"Add a noscript tag if not present",
                         "Include relevant content within the noscript tag",
                         "Ensure the noscript content provides value to users without JavaScript",
                         "Consider adding a text version of your main content within noscript tags">>,
             additionalContext |-> "Noscript content improves accessibility for users without JavaScript and can be beneficial for SEO."] >>
    ELSE <<>>

\* the blocks of generateEnhancedRecommendations, in source order
RecommendationBlocks(scores) ==
    <<
      Recommend(scores.titleScore, 90, "title-optimization", "Meta Tags",
        "Optimize Title Tag", "Title needs improvement",
        <<"Keep title length between 30-60 characters",
          "Include primary keyword near the beginning",
          "Make it compelling and relevant to the page content",
          "Ensure each page has a unique title">>,
        "Title tags are crucial for SEO and click-through rates.")
    , Recommend(scores.metaDescriptionScore, 90, "meta-description-optimization", "Meta Tags",
        "Improve Meta Description", "Meta description needs optimization",
        <<"Write a compelling description between 120-160 characters",
          "Include relevant keywords naturally",
          "Make it actionable and aligned with the page content",
          "Ensure each page has a unique meta description">>,
        "Meta descriptions impact click-through rates from search results.")
    , Recommend(scores.headingsScore, 100, "heading-structure-optimization",
        "Content Structure",
        "Optimize Heading Structure", "Heading structure needs improvement",
        <<"Ensure there is exactly one H1 heading per page",
          "Use H2 and H3 subheadings to structure your content logically",
          "Include relevant keywords in headings naturally",
          "Check that headings in noscript content are properly structured">>,
        "Proper heading structure improves both SEO and user experience, including for users with JavaScript disabled.")
    , Recommend(scores.imageOptimizationScore, 90, "image-optimization", "Media Optimization",
        "Optimize Images", "Image optimization needed",
        <<"Add descriptive alt text to all images",
          "Compress images to reduce file size",
          "Use descriptive file names for images",
          "Implement lazy loading for images below the fold">>,
        "Optimized images improve page load speed and accessibility.")
    , Recommend(scores.contentScore, 100, "content-optimization", "Content Quality",
        "Enhance Content Quality", "Content needs improvement",
        <<"Aim for at least 600 words of quality content, including noscript content",
          "Ensure content is valuable and relevant to users with and without JavaScript",
          "Incorporate relevant keywords naturally throughout the content",
          "Add internal and external links to provide additional value">>,
        "High-quality, comprehensive content is essential for SEO success, regardless of whether JavaScript is enabled.")
    , Recommend(scores.technicalScore, 90, "technical-seo-optimization", "Technical SEO",
        "Improve Technical SEO", "Technical improvements needed",
        <<"Add a canonical tag to prevent duplicate content issues",
          "Implement a responsive design with proper viewport meta tag",
          "Add a robots meta tag to guide search engines",
          "Ensure proper XML sitemap implementation">>,
        "Technical SEO provides the foundation for overall SEO success.")
    , NoscriptRecommendation(scores.technicalScore)
    , Recommend(scores.mobileFriendlinessScore, 90, "mobile-optimization", "Mobile-Friendliness",
        "Improve Mobile-Friendliness", "Mobile optimization needed",
        <<"Ensure viewport meta tag is properly set",
          "Use responsive design techniques",
          "Test on various mobile devices and screen sizes",
          "Optimize touch targets for mobile users">>,
        "Mobile-friendliness is crucial for both user experience and SEO.")
    , Recommend(scores.linkingStructureScore, 90, "linking-structure-optimization",
        "Content and Navigation",
        "Enhance Linking Structure", "Linking structure needs improvement",
        <<"Increase internal linking to relevant pages",
          "Add external links to authoritative sources",
          "Use descriptive anchor text for links",
          "Ensure all links are functional and relevant">>,
        "A good linking structure improves navigation and helps search engines understand your site.")
    >>

\* the list ordered by impact, 'High' first
generateEnhancedRecommendations_highFirst(scores) ==
    LET all == Join(RecommendationBlocks(scores))
    IN  SelectSeq(all, LAMBDA r : r.impact = "High")
        \o SelectSeq(all, LAMBDA r : r.impact # "High")

\* every block pushes onto the one array, which is returned as it is
generateEnhancedRecommendations(scores) == Join(RecommendationBlocks(scores))

\* the eight analyzers, in the order enhancedAnalyzeSEO runs them
DetailedScores(doc) ==
    [titleScore              |-> analyzeTitleTag(doc),
     metaDescriptionScore    |-> analyzeMetaDescription(doc),
     headingsScore           |-> analyzeHeadings(doc),
     imageOptimizationScore  |-> analyzeImages(doc),
     contentScore            |-> analyzeContentQuality(doc),
     technicalScore          |-> analyzeTechnicalSEO(doc),
     mobileFriendlinessScore |-> analyzeMobileFriendliness(doc),
     linkingStructureScore   |-> analyzeLinkingStructure(doc)]

ScoreList(d) ==
    <<d.titleScore, d.metaDescriptionScore, d.headingsScore, d.imageOptimizationScore,
      d.contentScore, d.technicalScore, d.mobileFriendlinessScore, d.linkingStructureScore>>

\* the report enhancedAnalyzeSEO returns for the document fetched from url
EnhancedSEOReport(url, doc) ==
    LET d == DetailedScores(doc)
    IN  [url |-> url,
         overallScore |-> calculateOverallScore(ScoreList(d)),
         detailedScores |-> d,
         recommendations |-> generateEnhancedRecommendations(d)]

\* ------------------------------------------------------------------------
\* Values thrown by the collaborators
\* ------------------------------------------------------------------------
NoError == [isError |-> FALSE, isAxios |-> FALSE, code |-> "none", response |-> <<>>, request |-> FALSE]

AxiosError(code, response) ==
    [isError |-> TRUE, isAxios |-> TRUE, code |-> code, response |-> response, request |-> TRUE]

\* what axios.get rejects with: connection refused, host not found, a non-2xx
\* status, a timeout without response
AxiosFailures ==
    {AxiosError("ECONNREFUSED", <<>>),
     AxiosError("ENOTFOUND", <<>>),
     AxiosError("ERR_BAD_REQUEST", <<"404", "Not Found">>),
     AxiosError("ECONNABORTED", <<>>)}

\* an Error that is no AxiosError (puppeteer's errors, SyntaxError, TypeError)
PlainError == [isError |-> TRUE, isAxios |-> FALSE, code |-> "", response |-> <<>>, request |-> FALSE]

\* a rejection with a value that is not an Error instance
NonError == [isError |-> FALSE, isAxios |-> FALSE, code |-> "", response |-> <<>>, request |-> FALSE]

PuppeteerFailures == {PlainError, NonError}

\* ------------------------------------------------------------------------
\* enhancedAnalyzeSEO: the outer catch
\* ------------------------------------------------------------------------
CatchMessage(error, method, url) ==
    IF error.isError /\ method = "axios" /\ error.isAxios
    THEN IF error.code = "ECONNREFUSED"
         THEN <<"Connection", "refused", "to">> \o url
              \o <<".", "The website might be blocking automated requests.">>
         ELSE IF error.code = "ENOTFOUND"
         THEN <<"Domain">> \o url \o <<"not", "found", ".", "Please check if the URL is correct.">>
         ELSE IF error.response # <<>>
         THEN <<"Server responded with error:">> \o error.response
         ELSE IF error.request
         THEN <<"No", "response", "received", "from">> \o url
              \o <<".", "The website might be blocking automated requests.">>
         ELSE <<"Unknown error occurred while analyzing the website">>
    ELSE IF error.isError /\ method = "puppeteer"
    THEN <<"Failed to analyze">> \o url
         \o <<"using browser simulation.", "The website might have strong anti-bot measures.">>
    ELSE <<"Unknown error occurred while analyzing the website">>

\* ------------------------------------------------------------------------
\* handler: the status code of its catch
\* ------------------------------------------------------------------------
StatusCode(message) ==
    IF Includes(message, <<"Domain", "not", "found">>) THEN 400
    ELSE IF Includes(message, <<"Connection", "refused">>)
            \/ Includes(message, <<"No", "response", "received">>) THEN 503
    ELSE 500

Suggestions ==
    <<"Check if the URL is correct and accessible",
      "Try analyzing the website later",
      "Make sure the website is not blocking automated requests",
      "If the issue persists, try analyzing a different URL">>

ErrorResponse(message) ==
    [status |-> StatusCode(message), error |-> message, suggestions |-> Suggestions]

\* ------------------------------------------------------------------------
\* Documents and requests of the pipeline runs
\* ------------------------------------------------------------------------
GuideTitle == <<"search", "engine", "optimization", "Guide">>

BaseDoc ==
    [title |-> GuideTitle, titlePad |-> 0,
     description |-> GuideTitle \o GuideTitle \o GuideTitle \o GuideTitle,
     h1 |-> << <<"Welcome">> >>, h2Count |-> 2, h3Count |-> 0,
     viewport |-> <<"width=device-width", ",", "initial-scale=1">>,
     totalImages |-> 0, imagesWithAlt |-> 0, imagesWithAltText |-> 0,
     bodyWords |-> 650, noscriptWords |-> 0, sentencePieces |-> 40,
     metaKeywords |-> {}, kwHits |-> 13,
     canonical |-> TRUE, robots |-> TRUE, ogTitle |-> TRUE, ogDescription |-> TRUE,
     ogImage |-> TRUE, twitterCard |-> TRUE, jsonLd |-> TRUE,
     internalLinks |-> 6, externalLinks |-> 2, ogUrlUnsafe |-> FALSE]

EmptyDoc ==
    [title |-> <<>>, titlePad |-> 0, description |-> <<>>,
     h1 |-> <<>>, h2Count |-> 0, h3Count |-> 0,
     viewport |-> <<>>,
     totalImages |-> 0, imagesWithAlt |-> 0, imagesWithAltText |-> 0,
     bodyWords |-> 0, noscriptWords |-> 0, sentencePieces |-> 1,
     metaKeywords |-> {}, kwHits |-> 0,
     canonical |-> FALSE, robots |-> FALSE, ogTitle |-> FALSE, ogDescription |-> FALSE,
     ogImage |-> FALSE, twitterCard |-> FALSE, jsonLd |-> FALSE,
     internalLinks |-> 0, externalLinks |-> 0, ogUrlUnsafe |-> FALSE]

ThinDoc ==
    [BaseDoc EXCEPT !.title = <<"seo", "guide">>, !.h1 = << <<"Guide">>, <<"Welcome">> >>,
                    !.totalImages = 4, !.imagesWithAlt = 1,
                    !.bodyWords = 120, !.noscriptWords = 10, !.kwHits = 9,
                    !.sentencePieces = 3, !.robots = FALSE, !.jsonLd = FALSE,
                    !.internalLinks = 2, !.externalLinks = 0]

\* a title keyword that new RegExp rejects
UnsafeDoc == [BaseDoc EXCEPT !.title = <<"(seo", "guide">>]

PipelineDocs == {BaseDoc, EmptyDoc, ThinDoc, UnsafeDoc}

NoDoc == [title |-> <<"-">>]
NoReport == [url |-> <<>>]
NoUrl == <<"undefined">>
NoRequest == [method |-> "-", url |-> <<>>]

\* req.body.url: absent, the empty string, or a string
PipelineUrls ==
    {NoUrl, <<>>,
     <<"example.com", "/path">>,
     <<" ", "http://", "Example.com", " ">>,
     <<"http://">>,
     <<" ">>}

Methods == {"GET", "POST"}

\* ------------------------------------------------------------------------
\* Initial state: no request received yet
\* ------------------------------------------------------------------------
PipelineIdle ==
    /\ pc = "idle"
    /\ req = NoRequest
    /\ normalizedUrl = <<>>
    /\ fetchMethod = "axios"
    /\ browser = "null"
    /\ html = NoDoc
    /\ axiosError = NoError
    /\ caught = NoError
    /\ outcome = "pending"
    /\ report = NoReport
    /\ errorMessage = <<>>
    /\ responses = <<>>
    /\ events = <<>>

\* no second invocation
NoInvocation == [pc |-> "-"]

Init ==
    /\ PipelineIdle
    /\ arg = <<>>
    /\ ret = <<>>
    /\ parked = NoInvocation

\* ------------------------------------------------------------------------
\* handler, up to its first await
\* ------------------------------------------------------------------------
\* the method never checked
HandlerReceive_anyMethod ==
    /\ pc = "idle"
    /\ \E method \in Methods, url \in PipelineUrls :
        /\ req' = [method |-> method, url |-> url]
        /\ IF url = NoUrl \/ url = <<>>
           THEN /\ responses' = Append(responses,
                       [status |-> 400, error |-> <<"URL is required">>])
                /\ pc' = "responded"
                /\ UNCHANGED <<normalizedUrl, errorMessage, events>>
           ELSE LET n == normalizeUrl(url)
                IN  IF ~n.ok
                    THEN /\ errorMessage' = n.message
                         /\ responses' = Append(responses, ErrorResponse(n.message))
                         /\ pc' = "responded"
                         /\ UNCHANGED <<normalizedUrl, events>>
                    ELSE /\ normalizedUrl' = n.href
                         /\ events' = Append(events, "axios")
                         /\ pc' = "awaitAxios"
                         /\ UNCHANGED <<errorMessage, responses>>
    /\ UNCHANGED <<fetchMethod, browser, html, axiosError, caught, outcome, report, arg, ret, parked>>

\* the url that failed to normalize fetched as it was given
HandlerReceive_fetchAnyway ==
    /\ pc = "idle"
    /\ \E method \in Methods, url \in PipelineUrls :
        /\ req' = [method |-> method, url |-> url]
        /\ IF method # "POST"
           THEN /\ responses' = Append(responses,
                       [status |-> 405, error |-> <<"Method not allowed">>])
                /\ pc' = "responded"
                /\ UNCHANGED <<normalizedUrl, errorMessage, events>>
           ELSE IF url = NoUrl \/ url = <<>>
           THEN /\ responses' = Append(responses,
                       [status |-> 400, error |-> <<"URL is required">>])
                /\ pc' = "responded"
                /\ UNCHANGED <<normalizedUrl, errorMessage, events>>
           ELSE LET n == normalizeUrl(url)
                IN  /\ normalizedUrl' = IF n.ok THEN n.href ELSE url
                    /\ errorMessage' = IF n.ok THEN errorMessage ELSE n.message
                    /\ events' = Append(events, "axios")
                    /\ pc' = "awaitAxios"
                    /\ UNCHANGED responses
    /\ UNCHANGED <<fetchMethod, browser, html, axiosError, caught, outcome, report, arg, ret, parked>>

\* method check, url check, normalizeUrl, then enhancedAnalyzeSEO up to
\* `await axios.get`
HandlerReceive ==
    /\ pc = "idle"
    /\ \E method \in Methods, url \in PipelineUrls :
        /\ req' = [method |-> method, url |-> url]
        /\ IF method # "POST"
           THEN /\ responses' = Append(responses,
                       [status |-> 405, error |-> <<"Method not allowed">>])
                /\ pc' = "responded"
                /\ UNCHANGED <<normalizedUrl, errorMessage, events>>
           ELSE IF url = NoUrl \/ url = <<>>
           THEN /\ responses' = Append(responses,
                       [status |-> 400, error |-> <<"URL is required">>])
                /\ pc' = "responded"
                /\ UNCHANGED <<normalizedUrl, errorMessage, events>>
           ELSE LET n == normalizeUrl(url)
                IN  IF ~n.ok
                    THEN /\ errorMessage' = n.message
                         /\ responses' = Append(responses, ErrorResponse(n.message))
                         /\ pc' = "responded"
                         /\ UNCHANGED <<normalizedUrl, events>>
                    ELSE /\ normalizedUrl' = n.href
                         /\ events' = Append(events, "axios")
                         /\ pc' = "awaitAxios"
                         /\ UNCHANGED <<errorMessage, responses>>
    /\ UNCHANGED <<fetchMethod, browser, html, axiosError, caught, outcome, report, arg, ret, parked>>

\* ------------------------------------------------------------------------
\* enhancedAnalyzeSEO
\* ------------------------------------------------------------------------
\* cheerio.load, the eight analyzers, the aggregate and the recommendations;
\* a throw goes to the outer catch, which builds the surfaced Error
Analyze(doc, method) ==
    /\ html' = doc
    /\ IF AnalysisThrows(doc)
       THEN /\ caught' = PlainError
            /\ errorMessage' = CatchMessage(PlainError, method, normalizedUrl)
            /\ outcome' = "throw"
            /\ UNCHANGED report
       ELSE /\ report' = EnhancedSEOReport(normalizedUrl, doc)
            /\ outcome' = "return"
            /\ UNCHANGED <<caught, errorMessage>>

\* the outer catch after a failed puppeteer attempt
CatchPuppeteer(error) ==
    /\ caught' = error
    /\ errorMessage' = CatchMessage(error, fetchMethod, normalizedUrl)
    /\ outcome' = "throw"

\* axios.get resolves: the rest of the function runs; browser is null, so the
\* finally block does nothing
AxiosResolves ==
    /\ pc = "awaitAxios"
    /\ \E doc \in PipelineDocs :
        /\ Analyze(doc, fetchMethod)
        /\ events' = events \o <<"axios-ok">>
                     \o (IF AnalysisThrows(doc) THEN <<"analysis-failed", "error">> ELSE <<>>)
                     \o <<"settle">>
    /\ pc' = "settled"
    /\ UNCHANGED <<req, normalizedUrl, fetchMethod, browser, axiosError, responses, arg, ret, parked>>

\* a static failure surfaced without the fallback
AxiosRejects_noFallback ==
    /\ pc = "awaitAxios"
    /\ \E error \in AxiosFailures :
        /\ axiosError' = error
        /\ caught' = error
        /\ errorMessage' = CatchMessage(error, fetchMethod, normalizedUrl)
    /\ outcome' = "throw"
    /\ events' = events \o <<"axios-failed", "error", "settle">>
    /\ pc' = "settled"
    /\ UNCHANGED <<req, normalizedUrl, fetchMethod, browser, html, report, responses, arg, ret, parked>>

\* axios.get rejects: fetchMethod becomes 'puppeteer' and attemptPuppeteerFetch
\* runs up to `await chromium.executablePath`
AxiosRejects ==
    /\ pc = "awaitAxios"
    /\ \E error \in AxiosFailures : axiosError' = error
    /\ fetchMethod' = "puppeteer"
    /\ events' = events \o <<"axios-failed", "puppeteer">>
    /\ pc' = "awaitExecutablePath"
    /\ UNCHANGED <<req, normalizedUrl, browser, html, caught, outcome, report,
                   errorMessage, responses, arg, ret, parked>>

\* chromium.executablePath resolves; a missing path throws before any launch
ExecutablePathResolves ==
    /\ pc = "awaitExecutablePath"
    /\ \E found \in BOOLEAN :
        IF found
        THEN /\ pc' = "awaitLaunch"
             /\ UNCHANGED <<caught, errorMessage, outcome, events>>
        ELSE /\ CatchPuppeteer(PlainError)
             /\ events' = events \o <<"puppeteer-failed", "error", "settle">>
             /\ pc' = "settled"
    /\ UNCHANGED <<req, normalizedUrl, fetchMethod, browser, html, axiosError, report,
                   responses, arg, ret, parked>>

\* chromium.puppeteer.launch resolves: the browser exists from here on
LaunchResolves ==
    /\ pc = "awaitLaunch"
    /\ browser' = "open"
    /\ events' = Append(events, "launch")
    /\ pc' = "awaitNewPage"
    /\ UNCHANGED <<req, normalizedUrl, fetchMethod, html, axiosError, caught, outcome,
                   report, errorMessage, responses, arg, ret, parked>>

\* browser.newPage, page.setUserAgent, page.goto resolve in turn
PageStepResolves ==
    /\ pc \in {"awaitNewPage", "awaitSetUserAgent", "awaitGoto"}
    /\ pc' = CASE pc = "awaitNewPage"      -> "awaitSetUserAgent"
               [] pc = "awaitSetUserAgent" -> "awaitGoto"
               [] pc = "awaitGoto"         -> "awaitContent"
    /\ UNCHANGED <<req, normalizedUrl, fetchMethod, browser, html, axiosError, caught,
                   outcome, report, errorMessage, responses, events, arg, ret, parked>>

\* page.content resolves: the rest of the function runs up to the await of
\* browser.close in the finally block
ContentResolves ==
    /\ pc = "awaitContent"
    /\ \E doc \in PipelineDocs :
        /\ Analyze(doc, fetchMethod)
        /\ events' = events \o <<"puppeteer-ok">>
                     \o (IF AnalysisThrows(doc) THEN <<"analysis-failed", "error">> ELSE <<>>)
    /\ pc' = "awaitClose"
    /\ UNCHANGED <<req, normalizedUrl, fetchMethod, browser, axiosError, responses, arg, ret, parked>>

\* a failed puppeteer attempt that leaves without the finally block
PuppeteerRejects_noClose ==
    /\ pc \in {"awaitExecutablePath", "awaitLaunch", "awaitNewPage", "awaitSetUserAgent",
               "awaitGoto", "awaitContent"}
    /\ \E error \in PuppeteerFailures : CatchPuppeteer(error)
    /\ events' = events \o <<"puppeteer-failed", "error", "settle">>
    /\ pc' = "settled"
    /\ UNCHANGED <<req, normalizedUrl, fetchMethod, browser, html, axiosError, report,
                   responses, arg, ret, parked>>

\* any await of attemptPuppeteerFetch rejects: outer catch, then the finally
\* block, which awaits browser.close when a browser was launched
PuppeteerRejects ==
    /\ pc \in {"awaitExecutablePath", "awaitLaunch", "awaitNewPage", "awaitSetUserAgent",
               "awaitGoto", "awaitContent"}
    /\ \E error \in PuppeteerFailures : CatchPuppeteer(error)
    /\ IF browser = "open"
       THEN /\ events' = events \o <<"puppeteer-failed", "error">>
            /\ pc' = "awaitClose"
       ELSE /\ events' = events \o <<"puppeteer-failed", "error", "settle">>
            /\ pc' = "settled"
    /\ UNCHANGED <<req, normalizedUrl, fetchMethod, browser, html, axiosError, report,
                   responses, arg, ret, parked>>

\* finally: browser.close resolves, then the function returns or throws
CloseResolves ==
    /\ pc = "awaitClose"
    /\ browser' = "closed"
    /\ events' = events \o <<"close", "settle">>
    /\ pc' = "settled"
    /\ UNCHANGED <<req, normalizedUrl, fetchMethod, html, axiosError, caught, outcome,
                   report, errorMessage, responses, arg, ret, parked>>

\* ------------------------------------------------------------------------
\* handler, after `await enhancedAnalyzeSEO`
\* ------------------------------------------------------------------------
\* a failed analysis left without an answer
HandlerRespond_silentFailure ==
    /\ pc = "settled"
    /\ responses' = IF outcome = "return"
                    THEN Append(responses, [status |-> 200, report |-> report])
                    ELSE responses
    /\ pc' = "responded"
    /\ UNCHANGED <<req, normalizedUrl, fetchMethod, browser, html, axiosError, caught,
                   outcome, report, errorMessage, events, arg, ret, parked>>

HandlerRespond ==
    /\ pc = "settled"
    /\ responses' = Append(responses,
           IF outcome = "return" THEN [status |-> 200, report |-> report]
           ELSE ErrorResponse(errorMessage))
    /\ pc' = "responded"
    /\ UNCHANGED <<req, normalizedUrl, fetchMethod, browser, html, axiosError, caught,
                   outcome, report, errorMessage, events, arg, ret, parked>>

Next ==
    \/ HandlerReceive
    \/ AxiosResolves
    \/ AxiosRejects
    \/ ExecutablePathResolves
    \/ LaunchResolves
    \/ PageStepResolves
    \/ ContentResolves
    \/ PuppeteerRejects
    \/ CloseResolves
    \/ HandlerRespond

Spec == Init /\ [][Next]_vars

\* ------------------------------------------------------------------------
\* Two invocations of the handler on one event loop
\* ------------------------------------------------------------------------
\* the locals of the invocation that is running: handler's req, res and
\* normalizedUrl, enhancedAnalyzeSEO's html, fetchMethod and browser, and the
\* position of its continuation
Locals ==
    [pc |-> pc, req |-> req, normalizedUrl |-> normalizedUrl, fetchMethod |-> fetchMethod,
     browser |-> browser, html |-> html, axiosError |-> axiosError, caught |-> caught,
     outcome |-> outcome, report |-> report, errorMessage |-> errorMessage,
     responses |-> responses, events |-> events]

IdleLocals ==
    [pc |-> "idle", req |-> NoRequest, normalizedUrl |-> <<>>, fetchMethod |-> "axios",
     browser |-> "null", html |-> NoDoc, axiosError |-> NoError, caught |-> NoError,
     outcome |-> "pending", report |-> NoReport, errorMessage |-> <<>>,
     responses |-> <<>>, events |-> <<>>]

InitConcurrent ==
    /\ PipelineIdle
    /\ arg = <<>>
    /\ ret = <<>>
    /\ parked = IdleLocals

\* fetchMethod kept in one variable for all invocations
Resume_sharedFetchMethod ==
    /\ parked # NoInvocation
    /\ parked' = Locals
    /\ pc' = parked.pc
    /\ req' = parked.req
    /\ normalizedUrl' = parked.normalizedUrl
    /\ fetchMethod' = fetchMethod
    /\ browser' = parked.browser
    /\ html' = parked.html
    /\ axiosError' = parked.axiosError
    /\ caught' = parked.caught
    /\ outcome' = parked.outcome
    /\ report' = parked.report
    /\ errorMessage' = parked.errorMessage
    /\ responses' = parked.responses
    /\ events' = parked.events
    /\ UNCHANGED <<arg, ret>>

\* the running invocation waits at its await (or has ended) and the event loop
\* runs the next continuation of the other one, on that invocation's locals
Resume ==
    /\ parked # NoInvocation
    /\ parked' = Locals
    /\ pc' = parked.pc
    /\ req' = parked.req
    /\ normalizedUrl' = parked.normalizedUrl
    /\ fetchMethod' = parked.fetchMethod
    /\ browser' = parked.browser
    /\ html' = parked.html
    /\ axiosError' = parked.axiosError
    /\ caught' = parked.caught
    /\ outcome' = parked.outcome
    /\ report' = parked.report
    /\ errorMessage' = parked.errorMessage
    /\ responses' = parked.responses
    /\ events' = parked.events
    /\ UNCHANGED <<arg, ret>>

NextConcurrent == Next \/ Resume

SpecConcurrent == InitConcurrent /\ [][NextConcurrent]_vars

\* ------------------------------------------------------------------------
\* Function-level runs: the input is drawn by the initial state, one action
\* applies the function
\* ------------------------------------------------------------------------
FunctionIdle ==
    /\ pc = "call"
    /\ req = NoRequest
    /\ normalizedUrl = <<>>
    /\ fetchMethod = "axios"
    /\ browser = "null"
    /\ html = NoDoc
    /\ axiosError = NoError
    /\ caught = NoError
    /\ outcome = "pending"
    /\ report = NoReport
    /\ errorMessage = <<>>
    /\ responses = <<>>
    /\ events = <<>>
    /\ parked = NoInvocation

Blanks(n) == [i \in 1..n |-> " "]

\* a raw url: blanks, an optional scheme, a host, an optional path, blanks
Prefixes == {<<>>, <<"http://">>, <<"https://">>, <<"HTTP://">>}
Hosts == {<<>>, <<"example.com">>, <<"Example.com">>, <<"example.com", " ", "Example.com">>}
Paths == {<<>>, <<"/path">>}

Raw(u) == Blanks(u.lead) \o u.prefix \o u.host \o u.path \o Blanks(u.trail)

InitNorm ==
    /\ FunctionIdle
    /\ \E lead \in 0..MaxPad, trail \in 0..MaxPad :
         \E prefix \in Prefixes, host \in Hosts, path \in Paths :
            arg = [lead |-> lead, prefix |-> prefix, host |-> host, path |-> path,
                   trail |-> trail]
    /\ ret = <<>>

NormalizeCall ==
    /\ pc = "call"
    /\ ret' = normalizeUrl(Raw(arg))
    /\ pc' = "done"
    /\ UNCHANGED <<req, normalizedUrl, fetchMethod, browser, html, axiosError, caught,
                   outcome, report, errorMessage, responses, events, arg, parked>>

NextNorm == NormalizeCall

SpecNorm == InitNorm /\ [][NextNorm]_vars

\* lists of dimension scores: any score, any impact
ScoreSamples == {-8, -3, 69, 70, 80, 89, 90, 105}
Impacts == {"positive", "negative", "neutral"}
Categories ==
    <<"Title Tag", "Meta Description", "Heading Structure", "Image Optimization",
      "Content Quality", "Technical SEO", "Mobile-Friendliness", "Linking Structure">>

ScoreListOf(n, sc, im) ==
    [i \in 1..n |-> DetailedSEOScore(sc[i], Categories[i], <<ToString(sc[i])>>, im[i],
                                     <<"context of", Categories[i]>>)]

InitScore ==
    /\ FunctionIdle
    /\ \E n \in 1..MaxDims :
         \E sc \in [1..n -> ScoreSamples], im \in [1..n -> Impacts] :
            arg = ScoreListOf(n, sc, im)
    /\ ret = <<>>

OverallScoreCall ==
    /\ pc = "call"
    /\ ret' = calculateOverallScore(arg)
    /\ pc' = "done"
    /\ UNCHANGED <<req, normalizedUrl, fetchMethod, browser, html, axiosError, caught,
                   outcome, report, errorMessage, responses, events, arg, parked>>

NextScore == OverallScoreCall

SpecScore == InitScore /\ [][NextScore]_vars

\* score maps: every dimension around its threshold; the technical score, whose
\* context the generator also reads, is what analyzeTechnicalSEO returns for
\* every combination of present and missing tags
Around90 == {69, 89, 90}
Around100 == {69, 99, 100}

SomeScore(score, category) ==
    DetailedSEOScore(score, category, <<ToString(score)>>, "neutral",
                     <<"context of", category>>)

TechnicalDoc(c, v, r, o, t, j) ==
    [BaseDoc EXCEPT !.canonical = c, !.viewport = v, !.robots = r, !.ogTitle = o,
                    !.ogDescription = o, !.ogImage = o, !.twitterCard = t, !.jsonLd = j]

InitRec ==
    /\ FunctionIdle
    /\ \E a \in Around90, b \in Around90, c \in Around100, d \in Around90,
          e \in Around100, f \in Around90, g \in Around90 :
         \E tc \in BOOLEAN, tv \in {<<>>, BaseDoc.viewport}, tr \in BOOLEAN,
            to \in BOOLEAN, tt \in BOOLEAN, tj \in BOOLEAN :
            arg = [titleScore              |-> SomeScore(a, Categories[1]),
                   metaDescriptionScore    |-> SomeScore(b, Categories[2]),
                   headingsScore           |-> SomeScore(c, Categories[3]),
                   imageOptimizationScore  |-> SomeScore(d, Categories[4]),
                   contentScore            |-> SomeScore(e, Categories[5]),
                   technicalScore          |-> analyzeTechnicalSEO(TechnicalDoc(tc, tv, tr, to, tt, tj)),
                   mobileFriendlinessScore |-> SomeScore(f, Categories[7]),
                   linkingStructureScore   |-> SomeScore(g, Categories[8])]
    /\ ret = <<>>

RecommendationsCall ==
    /\ pc = "call"
    /\ ret' = generateEnhancedRecommendations(arg)
    /\ pc' = "done"
    /\ UNCHANGED <<req, normalizedUrl, fetchMethod, browser, html, axiosError, caught,
                   outcome, report, errorMessage, responses, events, arg, parked>>

NextRec == RecommendationsCall

SpecRec == InitRec /\ [][NextRec]_vars

\* ------------------------------------------------------------------------
\* The basic analyzer: analyzeSEO, calculateSEOScore, generateRecommendations
\* ------------------------------------------------------------------------
\* $('title').text(): the text of the title element as it stands, with the
\* blanks around it
RawTitle(doc) == [pad |-> doc.titlePad, words |-> doc.title]

\* $('meta[name="description"]').attr('content') || ''
RawDescription(doc) == [pad |-> 0, words |-> doc.description]

\* text.length
Length(text) == text.pad + TextLen(text.words)

\* !text
Not(text) == Length(text) = 0

calculateSEOScore(title, metaDescription, h1Count, imgCount, imgWithAlt) ==
    LET t == IF Not(title)
             THEN [cost |-> 15, penalty |-> <<"Missing title tag">>, bonus |-> <<>>]
             ELSE IF Length(title) < 30
             THEN [cost |-> 10, penalty |-> <<"Title too short (< 30 characters)">>, bonus |-> <<>>]
             ELSE IF Length(title) > 60
             THEN [cost |-> 5, penalty |-> <<"Title too long (> 60 characters)">>, bonus |-> <<>>]
             ELSE [cost |-> 0, penalty |-> <<>>, bonus |-> <<"Optimal title length">>]
        m == IF Not(metaDescription)
             THEN [cost |-> 10, penalty |-> <<"Missing meta description">>, bonus |-> <<>>]
             ELSE IF Length(metaDescription) < 120
             THEN [cost |-> 8, penalty |-> <<"Meta description too short (< 120 characters)">>, bonus |-> <<>>]
             ELSE IF Length(metaDescription) > 160
             THEN [cost |-> 3, penalty |-> <<"Meta description too long (> 160 characters)">>, bonus |-> <<>>]
             ELSE [cost |-> 0, penalty |-> <<>>, bonus |-> <<"Optimal meta description length">>]
        h == IF h1Count = 0
             THEN [cost |-> 10, penalty |-> <<"Missing H1 tag">>, bonus |-> <<>>]
             ELSE IF h1Count > 1
             THEN [cost |-> 5, penalty |-> <<"Multiple H1 tags">>, bonus |-> <<>>]
             ELSE [cost |-> 0, penalty |-> <<>>, bonus |-> <<"Proper H1 tag usage">>]
        i == IF imgCount > 0
             THEN IF imgWithAlt < imgCount
                  THEN [cost |-> MathRound(10 * (imgCount - imgWithAlt), imgCount),
                        penalty |-> <<ToString(MathRound(100 * (imgCount - imgWithAlt), imgCount))
                                      \o "% of images missing alt text">>,
                        bonus |-> <<>>]
                  ELSE [cost |-> 0, penalty |-> <<>>, bonus |-> <<"All images have alt text">>]
             ELSE [cost |-> 0, penalty |-> <<>>, bonus |-> <<>>]
        score == 100 - t.cost - m.cost - h.cost - i.cost
        max(a, b) == IF a > b THEN a ELSE b
        min(a, b) == IF a < b THEN a ELSE b
    IN  [score |-> max(0, min(100, score)),
         penalties |-> t.penalty \o m.penalty \o h.penalty \o i.penalty,
         bonuses |-> t.bonus \o m.bonus \o h.bonus \o i.bonus]

\* no recommendation for a title that is too long
generateRecommendations_shortOnly(title, metaDescription, h1Count, imgCount, imgWithAlt) ==
    (IF Not(title)
     THEN << [id |-> "title-missing", category |-> "Meta Tags", impact |-> "High",
              title |-> "Add Title Tag"] >>
     ELSE IF Length(title) < 30
     THEN << [id |-> "title-length", category |-> "Meta Tags", impact |-> "Medium",
              title |-> "Optimize Title Length"] >>
     ELSE <<>>)
    \o
    (IF Not(metaDescription)
     THEN << [id |-> "meta-desc-missing", category |-> "Meta Tags", impact |-> "High",
              title |-> "Add Meta Description"] >>
     ELSE IF Length(metaDescription) < 120 \/ Length(metaDescription) > 160
     THEN << [id |-> "meta-desc-length", category |-> "Meta Tags", impact |-> "Medium",
              title |-> "Optimize Meta Description Length"] >>
     ELSE <<>>)
    \o
    (IF h1Count = 0
     THEN << [id |-> "h1-missing", category |-> "Content Structure", impact |-> "High",
              title |-> "Add H1 Heading"] >>
     ELSE IF h1Count > 1
     THEN << [id |-> "multiple-h1", category |-> "Content Structure", impact |-> "Medium",
              title |-> "Consolidate H1 Headings"] >>
     ELSE <<>>)
    \o
    (IF imgCount > 0 /\ imgCount - imgWithAlt > 0
     THEN << [id |-> "img-alt-missing", category |-> "Accessibility", impact |-> "Medium",
              title |-> "Add Alt Text to Images"] >>
     ELSE <<>>)

\* the recommendations, each with its id, category, impact and title (the
\* description and the steps are fixed texts around the same numbers)
generateRecommendations(title, metaDescription, h1Count, imgCount, imgWithAlt) ==
    (IF Not(title)
     THEN << [id |-> "title-missing", category |-> "Meta Tags", impact |-> "High",
              title |-> "Add Title Tag"] >>
     ELSE IF Length(title) < 30 \/ Length(title) > 60
     THEN << [id |-> "title-length", category |-> "Meta Tags", impact |-> "Medium",
              title |-> "Optimize Title Length"] >>
     ELSE <<>>)
    \o
    (IF Not(metaDescription)
     THEN << [id |-> "meta-desc-missing", category |-> "Meta Tags", impact |-> "High",
              title |-> "Add Meta Description"] >>
     ELSE IF Length(metaDescription) < 120 \/ Length(metaDescription) > 160
     THEN << [id |-> "meta-desc-length", category |-> "Meta Tags", impact |-> "Medium",
              title |-> "Optimize Meta Description Length"] >>
     ELSE <<>>)
    \o
    (IF h1Count = 0
     THEN << [id |-> "h1-missing", category |-> "Content Structure", impact |-> "High",
              title |-> "Add H1 Heading"] >>
     ELSE IF h1Count > 1
     THEN << [id |-> "multiple-h1", category |-> "Content Structure", impact |-> "Medium",
              title |-> "Consolidate H1 Headings"] >>
     ELSE <<>>)
    \o
    (IF imgCount > 0 /\ imgCount - imgWithAlt > 0
     THEN << [id |-> "img-alt-missing", category |-> "Accessibility", impact |-> "Medium",
              title |-> "Add Alt Text to Images"] >>
     ELSE <<>>)

\* what analyzeSEO returns for the document fetched from url
SEOReport(url, doc) ==
    LET title == RawTitle(doc)
        metaDescription == RawDescription(doc)
        h1Count == Len(doc.h1)
        imgCount == doc.totalImages
        imgWithAlt == doc.imagesWithAlt
    IN  [url |-> url,
         overallScore |-> calculateSEOScore(title, metaDescription, h1Count, imgCount, imgWithAlt),
         recommendations |-> generateRecommendations(title, metaDescription, h1Count, imgCount, imgWithAlt)]

\* ------------------------------------------------------------------------
\* Document-level specification: both analyzers applied to a parsed page
\* ------------------------------------------------------------------------
WelcomeTitle == <<"Welcome", "search", "engine", "optimization">>

\* missing, 3, 32, 34, 65 and 10 characters
Titles ==
    {<<>>, <<"seo">>, GuideTitle, WelcomeTitle, GuideTitle \o GuideTitle,
     <<"(seo", "guide">>}
TitlePads == {0, 2}
\* missing, 10 characters, 131 characters, 197 characters
Descriptions ==
    {<<>>, <<"guidelines">>, BaseDoc.description,
     BaseDoc.description \o GuideTitle \o GuideTitle}
Headings1 == {<<>>, << <<"Welcome">> >>, << <<"Guide">>, <<"Welcome">> >>}
Headings2 == {0, 2}
Viewports == {<<>>, <<"width=1024">>, <<"width=device-width">>, BaseDoc.viewport}
\* img elements, those with an alt attribute, those whose alt is not empty
ImageCounts == {<<0, 0, 0>>, <<2, 0, 0>>, <<4, 1, 1>>, <<4, 4, 4>>, <<3, 3, 1>>}
\* body words, noscript words, keyword hits, sentence pieces
Bodies == {<<0, 0, 0, 1>>, <<250, 0, 0, 1>>, <<120, 10, 9, 3>>, <<700, 20, 10, 40>>}
\* canonical link, the other head tags
HeadTags == {<<TRUE, TRUE>>, <<TRUE, FALSE>>, <<FALSE, FALSE>>}
LinkCounts == {<<0, 0>>, <<6, 2>>}

Page(t, p, d, h1, h2, v, im, b, hd, l, u) ==
    [title |-> t, titlePad |-> p, description |-> d,
     h1 |-> h1, h2Count |-> h2, h3Count |-> 0,
     viewport |-> v,
     totalImages |-> im[1], imagesWithAlt |-> im[2], imagesWithAltText |-> im[3],
     bodyWords |-> b[1], noscriptWords |-> b[2], kwHits |-> b[3], sentencePieces |-> b[4],
     metaKeywords |-> {},
     canonical |-> hd[1], robots |-> hd[2], ogTitle |-> hd[2], ogDescription |-> hd[2],
     ogImage |-> hd[2], twitterCard |-> hd[2], jsonLd |-> hd[2],
     internalLinks |-> l[1], externalLinks |-> l[2], ogUrlUnsafe |-> u]

PageUrl == <<"https://", "example.com", "/">>

InitDoc ==
    /\ FunctionIdle
    /\ \E t \in Titles, p \in TitlePads, d \in Descriptions, h1 \in Headings1,
          h2 \in Headings2, v \in Viewports :
         \E im \in ImageCounts, b \in Bodies, hd \in HeadTags, l \in LinkCounts,
            u \in BOOLEAN :
            arg = Page(t, p, d, h1, h2, v, im, b, hd, l, u)
    /\ ret = <<>>

\* the synchronous part of enhancedAnalyzeSEO: the eight analyzers, the
\* overall score and the recommendations, or the exception of an analyzer
EnhancedAnalyzeCall ==
    /\ pc = "call"
    /\ ret' = IF AnalysisThrows(arg)
              THEN [analyzer |-> "enhanced", threw |-> TRUE]
              ELSE [analyzer |-> "enhanced", threw |-> FALSE,
                    report |-> EnhancedSEOReport(PageUrl, arg)]
    /\ pc' = "done"
    /\ UNCHANGED <<req, normalizedUrl, fetchMethod, browser, html, axiosError, caught,
                   outcome, report, errorMessage, responses, events, arg, parked>>

\* the synchronous part of analyzeSEO
BasicAnalyzeCall ==
    /\ pc = "call"
    /\ ret' = [analyzer |-> "basic", threw |-> FALSE, report |-> SEOReport(PageUrl, arg)]
    /\ pc' = "done"
    /\ UNCHANGED <<req, normalizedUrl, fetchMethod, browser, html, axiosError, caught,
                   outcome, report, errorMessage, responses, events, arg, parked>>

NextDoc == EnhancedAnalyzeCall \/ BasicAnalyzeCall

SpecDoc == InitDoc /\ [][NextDoc]_vars

\* ------------------------------------------------------------------------
\* analyzeTechnicalSEO on every combination of present and missing head tags
\* ------------------------------------------------------------------------
HeadDoc(c, v, r, og, t, j) ==
    [BaseDoc EXCEPT !.canonical = c, !.viewport = v, !.robots = r, !.ogTitle = og[1],
                    !.ogDescription = og[2], !.ogImage = og[3], !.twitterCard = t,
                    !.jsonLd = j]

InitTech ==
    /\ FunctionIdle
    /\ \E c \in BOOLEAN, v \in {<<>>, <<"width=1024">>}, r \in BOOLEAN,
          og \in [1..3 -> BOOLEAN], t \in BOOLEAN, j \in BOOLEAN :
         arg = HeadDoc(c, v, r, og, t, j)
    /\ ret = <<>>

TechnicalCall ==
    /\ pc = "call"
    /\ ret' = analyzeTechnicalSEO(arg)
    /\ pc' = "done"
    /\ UNCHANGED <<req, normalizedUrl, fetchMethod, browser, html, axiosError, caught,
                   outcome, report, errorMessage, responses, events, arg, parked>>

NextTech == TechnicalCall

SpecTech == InitTech /\ [][NextTech]_vars

\* ------------------------------------------------------------------------
\* The eight analyzers run one after the other on one parsed document
\* ------------------------------------------------------------------------
AnalyzerNames ==
    {"titleScore", "metaDescriptionScore", "headingsScore", "imageOptimizationScore",
     "contentScore", "technicalScore", "mobileFriendlinessScore", "linkingStructureScore"}

RunAnalyzer(name, doc) ==
    CASE name = "titleScore"              -> analyzeTitleTag(doc)
      [] name = "metaDescriptionScore"    -> analyzeMetaDescription(doc)
      [] name = "headingsScore"           -> analyzeHeadings(doc)
      [] name = "imageOptimizationScore"  -> analyzeImages(doc)
      [] name = "contentScore"            -> analyzeContentQuality(doc)
      [] name = "technicalScore"          -> analyzeTechnicalSEO(doc)
      [] name = "mobileFriendlinessScore" -> analyzeMobileFriendliness(doc)
      [] name = "linkingStructureScore"   -> analyzeLinkingStructure(doc)

\* the noscript elements removed from the body itself
RemoveHidden_inPlace(doc) == [doc EXCEPT !.noscriptWords = 0]

\* $('body').clone().children('script, style, noscript').remove(): the
\* elements are removed from the clone, the document keeps them
RemoveHidden(doc) == doc

\* the document after an analyzer has run: the others only read it
DocumentAfter(name, doc) == IF name = "contentScore" THEN RemoveHidden(doc) ELSE doc

OrderDocs == {doc \in PipelineDocs : ~AnalysisThrows(doc)}

InitOrder ==
    /\ FunctionIdle
    /\ \E doc \in OrderDocs :
        /\ arg = doc
        /\ ret = [document |-> doc, scores |-> [n \in {} |-> doc]]

AnalyzerCall ==
    /\ pc = "call"
    /\ \E name \in AnalyzerNames \ DOMAIN ret.scores :
        /\ ret' = [document |-> DocumentAfter(name, ret.document),
                   scores |-> [n \in DOMAIN ret.scores \cup {name} |->
                                  IF n = name THEN RunAnalyzer(name, ret.document)
                                  ELSE ret.scores[n]]]
        /\ pc' = IF DOMAIN ret.scores \cup {name} = AnalyzerNames THEN "done" ELSE "call"
    /\ UNCHANGED <<req, normalizedUrl, fetchMethod, browser, html, axiosError, caught,
                   outcome, report, errorMessage, responses, events, arg, parked>>

NextOrder == AnalyzerCall

SpecOrder == InitOrder /\ [][NextOrder]_vars

\* ------------------------------------------------------------------------
\* Properties
\* ------------------------------------------------------------------------
Has(e) == \E i \in 1..Len(events) : events[i] = e
Count(e) == Cardinality({i \in 1..Len(events) : events[i] = e})
First(e) == CHOOSE i \in 1..Len(events) : events[i] = e /\ \A j \in 1..(i - 1) : events[j] # e

Settled == pc \in {"settled", "responded"} /\ events # <<>>
LastResponse == responses[Len(responses)]

\* C1: in a run of enhancedAnalyzeSEO the static fetch is attempted exactly
\* once, first; after a static failure the rendered fetch is attempted exactly
\* once, after the failure and before any error is surfaced; after a static
\* success the rendered fetch is never attempted, also when analysis throws.
C1_FetchAttempts ==
    /\ events # <<>> => events[1] = "axios" /\ Count("axios") = 1
    /\ Count("puppeteer") <= 1
    /\ Settled => Has("axios-ok") \/ Has("axios-failed")
    /\ Has("axios-failed") =>
          /\ Count("puppeteer") = 1
          /\ First("axios-failed") < First("puppeteer")
          /\ Has("error") => First("puppeteer") < First("error")
    /\ Has("axios-ok") => Count("puppeteer") = 0

C1_Witness ==
    /\ pc = "responded"
    /\ Has("axios-failed") /\ Has("puppeteer-failed") /\ Has("error")
    /\ LastResponse.status # 200

\* C2: whenever enhancedAnalyzeSEO has returned or thrown, a browser that was
\* launched has been closed, and it was closed before the function settled.
C2_BrowserClosed ==
    Settled =>
        /\ browser # "open"
        /\ Has("launch") => browser = "closed" /\ First("close") < First("settle")

C2_Witness ==
    /\ pc = "responded"
    /\ Has("launch") /\ Has("puppeteer-failed")
    /\ browser = "closed"

AntiBotSentences ==
    {"The website might be blocking automated requests.",
     "The website might have strong anti-bot measures."}

GenericMessage == <<"Unknown error occurred while analyzing the website">>

\* C3: after a connection-refused static failure followed by a failed rendered
\* fetch, the surfaced message says the site blocks automated access and is
\* not the generic unknown-error message.
C3_AntiBotMessage ==
    (Settled /\ axiosError.code = "ECONNREFUSED" /\ Has("puppeteer-failed")) =>
        /\ \E i \in 1..Len(errorMessage) : errorMessage[i] \in AntiBotSentences
        /\ errorMessage # GenericMessage

\* the text that names a kind of static failure
NamesStaticFailure(message, error) ==
    CASE error.code = "ECONNREFUSED" -> Includes(message, <<"Connection", "refused">>)
      [] error.code = "ENOTFOUND"    -> Includes(message, <<"Domain">>)
                                        /\ Includes(message, <<"not", "found">>)
      [] error.response # <<>>       -> Includes(message, error.response)
      [] OTHER                       -> Includes(message, <<"No", "response", "received">>)

\* C4: when retrieval fails, the surfaced message names the kind of static
\* failure that occurred (connection refused, host not found, status code and
\* text, no response), together with the stage that failed last.
C4_StaticFailureNamed ==
    (Settled /\ Has("puppeteer-failed")) =>
        /\ NamesStaticFailure(errorMessage, axiosError)
        /\ Includes(errorMessage, <<"using browser simulation.">>)

\* the status the mapping asks for, by the failure that ended the request
ExpectedStatus ==
    IF events = <<>> THEN 400
    ELSE IF Has("puppeteer-failed")
    THEN CASE axiosError.code = "ENOTFOUND" -> 400
           [] axiosError.code \in {"ECONNREFUSED", "ECONNABORTED"} -> 503
           [] OTHER -> 500
    ELSE 500

\* C5: a failed request that passed the method and url checks is answered
\* with 400 for a malformed url or an unresolvable host, with 503 for
\* connection refused or no response, and with 500 otherwise.
C5_StatusMapping ==
    (/\ pc = "responded"
     /\ req.method = "POST" /\ req.url # NoUrl /\ req.url # <<>>
     /\ LastResponse.status # 200) =>
        LastResponse.status = ExpectedStatus

SchemeParts == {"http://", "https://", "HTTP://", "http", "https", "//"}

\* C6: normalizeUrl trims, prepends 'https://' exactly when the trimmed input
\* starts with neither 'http://' nor 'https://', keeps the scheme of an input
\* that starts with one of them without adding a second one, and returns the
\* parsed absolute url; 'example.com/path' gives 'https://example.com/path'.
C6_NormalizeUrl ==
    pc = "done" =>
        LET keeps == arg.prefix \in {<<"http://">>, <<"https://">>}
            scheme == IF keeps THEN arg.prefix[1] ELSE "https://"
        IN  /\ ret.ok =>
                /\ ret.href[1] = scheme
                /\ \A i \in 1..Len(ret.href) : ret.href[i] # " "
                /\ keeps => \A i \in 2..Len(ret.href) : ret.href[i] \notin SchemeParts
            /\ (arg.prefix # <<"HTTP://">> /\ Len(arg.host) = 1) =>
                /\ ret.ok
                /\ ret.href = <<scheme, "example.com">>
                              \o (IF arg.path = <<>> THEN <<"/">> ELSE arg.path)
            /\ Raw(arg) = <<"example.com", "/path">> =>
                ret = [ok |-> TRUE, href |-> <<"https://", "example.com", "/path">>]

C6_Witness ==
    /\ pc = "done"
    /\ arg = [lead |-> 2, prefix |-> <<"http://">>, host |-> <<"Example.com">>,
              path |-> <<>>, trail |-> 2]
    /\ ret = [ok |-> TRUE, href |-> <<"http://", "example.com", "/">>]

\* C7: the overall score is the arithmetic mean of the dimension scores
\* rounded to the nearest integer (a tie goes up), also for lists with
\* negative scores and scores above 100.
C7_RoundedMean ==
    pc = "done" =>
        LET n == Len(arg)
            diff == 2 * (n * ret.score - TotalScore(arg))
        IN  -n < diff /\ diff <= n

C7_Witness ==
    /\ pc = "done"
    /\ Len(arg) = 2 /\ arg[1].score = -8 /\ arg[2].score = 105
    /\ ret.score = 49

WithImpact(impact) == {i \in 1..Len(arg) : arg[i].impact = impact}
Entry(i) == <<arg[i].category, ":">> \o arg[i].context
Entries(list) == {list[j] : j \in 1..Len(list)}

\* C8: penalties holds exactly one entry per negative dimension, bonuses
\* exactly one per positive dimension, a neutral dimension is in neither, and
\* the two lengths add up to the number of non-neutral dimensions.
C8_PenaltiesBonuses ==
    pc = "done" =>
        /\ Entries(ret.penalties) = {Entry(i) : i \in WithImpact("negative")}
        /\ Entries(ret.bonuses) = {Entry(i) : i \in WithImpact("positive")}
        /\ Len(ret.penalties) = Cardinality(WithImpact("negative"))
        /\ Len(ret.bonuses) = Cardinality(WithImpact("positive"))
        /\ Len(ret.penalties) + Len(ret.bonuses)
             = Len(arg) - Cardinality(WithImpact("neutral"))
        /\ Entries(ret.penalties) \cap Entries(ret.bonuses) = {}

C8_Witness ==
    /\ pc = "done"
    /\ Len(arg) = 3
    /\ arg[1].impact = "positive" /\ arg[2].impact = "neutral" /\ arg[3].impact = "negative"
    /\ Len(ret.penalties) = 1 /\ Len(ret.bonuses) = 1

DimensionRules ==
    << [key |-> "titleScore",              threshold |-> 90,  id |-> "title-optimization"],
       [key |-> "metaDescriptionScore",    threshold |-> 90,  id |-> "meta-description-optimization"],
       [key |-> "headingsScore",           threshold |-> 100, id |-> "heading-structure-optimization"],
       [key |-> "imageOptimizationScore",  threshold |-> 90,  id |-> "image-optimization"],
       [key |-> "contentScore",            threshold |-> 100, id |-> "content-optimization"],
       [key |-> "technicalScore",          threshold |-> 90,  id |-> "technical-seo-optimization"],
       [key |-> "mobileFriendlinessScore", threshold |-> 90,  id |-> "mobile-optimization"],
       [key |-> "linkingStructureScore",   threshold |-> 90,  id |-> "linking-structure-optimization"] >>

Below(d) == arg[DimensionRules[d].key].score < DimensionRules[d].threshold

\* C10: for each of the eight dimensions there is exactly one recommendation
\* when its score is below its threshold (100 for headings and content, 90
\* for the others) and none otherwise, and every recommendation in the list
\* is the one of a dimension whose score is below its threshold.
C10_Recommendations ==
    pc = "done" =>
        /\ \A d \in 1..8 :
              Cardinality({i \in 1..Len(ret) : ret[i].id = DimensionRules[d].id})
                = (IF Below(d) THEN 1 ELSE 0)
        /\ \A i \in 1..Len(ret) :
              \E d \in 1..8 : ret[i].id = DimensionRules[d].id /\ Below(d)

C10_Witness ==
    /\ pc = "done"
    /\ arg.titleScore.score = 90 /\ arg.headingsScore.score = 99
    /\ arg.contentScore.score = 100 /\ arg.technicalScore.score = 85
    /\ \E i \in 1..Len(ret) : ret[i].id = "heading-structure-optimization"
    /\ \E i \in 1..Len(ret) : ret[i].id = "technical-seo-optimization"
    /\ \A i \in 1..Len(ret) : ret[i].id \notin {"title-optimization", "content-optimization"}

RuleOf(id) == CHOOSE d \in 1..8 : DimensionRules[d].id = id

\* C11: every recommendation generateEnhancedRecommendations returns has
\* impact 'High' when the score of its dimension is below 70 and 'Medium'
\* otherwise; 'Low' is never produced.
C11_Impact ==
    pc = "done" =>
        \A i \in 1..Len(ret) :
            /\ \E d \in 1..8 : DimensionRules[d].id = ret[i].id
            /\ ret[i].impact = (IF arg[DimensionRules[RuleOf(ret[i].id)].key].score < 70
                                THEN "High" ELSE "Medium")
            /\ ret[i].impact # "Low"

C11_Witness ==
    /\ pc = "done"
    /\ arg.technicalScore.score = 70 /\ arg.titleScore.score = 69
    /\ \E i \in 1..Len(ret) : ret[i].id = "technical-seo-optimization" /\ ret[i].impact = "Medium"
    /\ \E i \in 1..Len(ret) : ret[i].id = "title-optimization" /\ ret[i].impact = "High"

\* C12: the recommendations are listed in the fixed order title, meta
\* description, headings, images, content, technical, mobile-friendliness,
\* linking, whatever the scores are.
C12_Order ==
    pc = "done" =>
        \A i \in 1..Len(ret) : \A j \in 1..Len(ret) :
            i < j => RuleOf(ret[i].id) < RuleOf(ret[j].id)

C12_Witness ==
    /\ pc = "done"
    /\ Len(ret) = 8
    /\ ret[1].id = "title-optimization" /\ ret[1].impact = "Medium"
    /\ ret[8].id = "linking-structure-optimization" /\ ret[8].impact = "High"

Returned(analyzer) == pc = "done" /\ ret.analyzer = analyzer /\ ~ret.threw

HasRecommendation(id, impact) ==
    \E i \in 1..Len(ret.report.recommendations) :
        /\ ret.report.recommendations[i].id = id
        /\ ret.report.recommendations[i].impact = impact

\* the title element is missing or its text is empty after trimming
TitleMissing == arg.title = <<>>

\* C14: for every document whose title is missing or empty after trimming,
\* the title score is 0 with category 'Title Tag' and impact negative, and the
\* recommendations hold a title recommendation with impact 'High':
\* 'title-optimization' from the enhanced analyzer, 'title-missing' from the
\* basic one.
C14_MissingTitle ==
    TitleMissing =>
        /\ Returned("enhanced") =>
              /\ ret.report.detailedScores.titleScore.score = 0
              /\ ret.report.detailedScores.titleScore.category = "Title Tag"
              /\ ret.report.detailedScores.titleScore.impact = "negative"
              /\ HasRecommendation("title-optimization", "High")
        /\ Returned("basic") => HasRecommendation("title-missing", "High")

\* exactly one H1 'Welcome', two H2s, the full viewport tag, a canonical
\* link and no images
WelcomePage ==
    /\ arg.h1 = << <<"Welcome">> >> /\ arg.h2Count = 2
    /\ arg.viewport = <<"width=device-width", ",", "initial-scale=1">>
    /\ arg.canonical
    /\ arg.totalImages = 0

NoRecommendation(id) ==
    \A i \in 1..Len(ret.report.recommendations) : ret.report.recommendations[i].id # id

WelcomeScores ==
    /\ ret.report.detailedScores.headingsScore.impact = "positive"
    /\ ret.report.detailedScores.mobileFriendlinessScore.impact = "positive"
    /\ ret.report.detailedScores.imageOptimizationScore.score = 100
    /\ ret.report.detailedScores.imageOptimizationScore.impact = "neutral"
    /\ NoRecommendation("mobile-optimization")
    /\ NoRecommendation("image-optimization")

\* C15 as stated: for such a page, whatever the rest of it is, the headings
\* and mobile-friendliness scores are positive, the image score is 100 and
\* neutral, and there is no recommendation for headings, mobile-friendliness
\* or images.
C15_Original ==
    (WelcomePage /\ Returned("enhanced")) =>
        WelcomeScores /\ NoRecommendation("heading-structure-optimization")

\* C15: for such a page the headings and mobile-friendliness scores are
\* positive, the image score is 100 and neutral, and there is no
\* recommendation for mobile-friendliness or images; there is no headings
\* recommendation exactly when a title word longer than three characters
\* occurs in the H1 text, and otherwise the headings score is 90 and the
\* headings recommendation is present with impact 'Medium'.
C15_WelcomePage ==
    (WelcomePage /\ Returned("enhanced")) =>
        /\ WelcomeScores
        /\ IF \E i \in 1..Len(arg.title) : Lower(arg.title[i]) = "welcome"
           THEN /\ ret.report.detailedScores.headingsScore.score = 100
                /\ NoRecommendation("heading-structure-optimization")
           ELSE /\ ret.report.detailedScores.headingsScore.score = 90
                /\ HasRecommendation("heading-structure-optimization", "Medium")

C15_Witness ==
    /\ WelcomePage /\ Returned("enhanced")
    /\ arg.title = WelcomeTitle
    /\ arg.description = <<>> /\ arg.internalLinks = 0
    /\ WelcomeScores /\ NoRecommendation("heading-structure-optimization")
    /\ HasRecommendation("meta-description-optimization", "High")

\* C16: for every document that is analyzed successfully the overall score of
\* the report lies between 0 and 100.
C16_OverallRange ==
    /\ Returned("enhanced") => ret.report.overallScore.score \in 0..100
    /\ Returned("basic") => ret.report.overallScore.score \in 0..100

\* C17: each of the eight analyzers returns a score for every parsed
\* document and never throws, also when the title, the meta keywords or the
\* og:url hold characters that are special in a regular expression or in a
\* selector.
C17_AnalyzersTotal ==
    (pc = "done" /\ ret.analyzer = "enhanced") => ~ret.threw

Received == req # NoRequest
NoPipelineWork ==
    /\ normalizedUrl = <<>> /\ errorMessage = <<>>
    /\ events = <<>>
    /\ html = NoDoc /\ report = NoReport /\ outcome = "pending"

\* C19: the handler rejects every request that is not a POST and every POST
\* whose body has no url, and does no normalization, fetch or analysis for it.
C19_Rejected ==
    (Received /\ (req.method # "POST" \/ req.url \in {NoUrl, <<>>})) =>
        /\ pc = "responded"
        /\ Len(responses) = 1
        /\ responses[1] = IF req.method # "POST"
                          THEN [status |-> 405, error |-> <<"Method not allowed">>]
                          ELSE [status |-> 400, error |-> <<"URL is required">>]
        /\ NoPipelineWork

C19_Witness ==
    /\ pc = "responded"
    /\ req = [method |-> "GET", url |-> <<"example.com", "/path">>]
    /\ LastResponse.status = 405
    /\ NoPipelineWork

NormalizationFailed == StartsWith(errorMessage, <<"Invalid", "URL", ":">>)

\* C20: the stages of a request happen only in the order normalize, retrieve,
\* parse, analyze, aggregate, recommend, and a failed stage prevents the later
\* ones: after an 'Invalid URL' nothing is fetched, after a failed retrieval
\* no analyzer runs and no report exists, after a throwing analyzer no report
\* exists, and a report is the one of the parsed page of the normalized url.
C20_StageOrder ==
    /\ NormalizationFailed => events = <<>> /\ html = NoDoc /\ report = NoReport
    /\ events # <<>> =>
          /\ normalizeUrl(req.url).ok
          /\ normalizedUrl = normalizeUrl(req.url).href
          /\ events[1] = "axios"
    /\ html # NoDoc =>
          /\ Has("axios-ok") \/ Has("puppeteer-ok")
          /\ Has("puppeteer-ok") => First("puppeteer") < First("puppeteer-ok")
    /\ Has("puppeteer-failed") =>
          /\ html = NoDoc /\ report = NoReport
          /\ ~Has("axios-ok") /\ ~Has("puppeteer-ok") /\ ~Has("analysis-failed")
    /\ Has("analysis-failed") => html # NoDoc /\ report = NoReport /\ outcome = "throw"
    /\ report # NoReport =>
          /\ html # NoDoc /\ ~AnalysisThrows(html)
          /\ report = EnhancedSEOReport(normalizedUrl, html)
          /\ outcome = "return"
    /\ (pc = "responded" /\ LastResponse.status = 200) =>
          report # NoReport /\ LastResponse.report = report

C20_Witness ==
    /\ pc = "responded"
    /\ Has("axios-failed") /\ Has("puppeteer-ok") /\ ~Has("analysis-failed")
    /\ html = ThinDoc
    /\ LastResponse.status = 200
    /\ LastResponse.report.url = <<"http://", "example.com", "/">>

\* what the request's own url and its own fetch results determine
OwnMethod == IF axiosError = NoError THEN "axios" ELSE "puppeteer"

OwnResponse ==
    IF req.method # "POST"
    THEN [status |-> 405, error |-> <<"Method not allowed">>]
    ELSE IF req.url \in {NoUrl, <<>>}
    THEN [status |-> 400, error |-> <<"URL is required">>]
    ELSE LET n == normalizeUrl(req.url)
         IN  IF ~n.ok THEN ErrorResponse(n.message)
             ELSE IF html = NoDoc
             THEN ErrorResponse(CatchMessage(caught, "puppeteer", n.href))
             ELSE IF AnalysisThrows(html)
             THEN ErrorResponse(CatchMessage(PlainError, OwnMethod, n.href))
             ELSE [status |-> 200, report |-> EnhancedSEOReport(n.href, html)]

\* C18: when two requests interleave at their awaits, the outcome of each
\* depends only on its own url and its own fetch results: its fetch method,
\* its browser and its response are what they would be without the other one.
C18_Isolation ==
    /\ events # <<>> =>
          /\ fetchMethod = (IF Has("axios-failed") THEN "puppeteer" ELSE "axios")
          /\ (browser = "open") = (Has("launch") /\ ~Has("close"))
          /\ normalizedUrl = normalizeUrl(req.url).href
    /\ pc = "responded" => Len(responses) = 1 /\ responses[1] = OwnResponse

C18_Witness ==
    /\ pc = "responded"
    /\ Has("axios-ok") /\ Has("analysis-failed")
    /\ LastResponse.status = 500 /\ fetchMethod = "axios"
    /\ parked # NoInvocation
    /\ parked.pc = "awaitGoto" /\ parked.fetchMethod = "puppeteer" /\ parked.browser = "open"
    /\ parked.req.url # req.url

MobileScore == ret.report.detailedScores.mobileFriendlinessScore
HasWidth == Includes(arg.viewport, <<"width=device-width">>)
HasScale == Includes(arg.viewport, <<"initial-scale=1">>)

\* C21 as stated: 50 and negative without a viewport, 75 and negative for a
\* viewport with neither 'width=device-width' nor 'initial-scale=1', 100 and
\* positive in every other case, also with only one of the two.
C21_Original ==
    Returned("enhanced") =>
        /\ MobileScore.score = (IF arg.viewport = <<>> THEN 50
                                ELSE IF ~HasWidth /\ ~HasScale THEN 75 ELSE 100)
        /\ MobileScore.impact = (IF arg.viewport = <<>> \/ (~HasWidth /\ ~HasScale)
                                 THEN "negative" ELSE "positive")

\* C21: analyzeMobileFriendliness returns 50 and negative without a viewport,
\* 75 and negative for a viewport that lacks 'width=device-width' or lacks
\* 'initial-scale=1' (one missing token is enough), and 100 and positive only
\* for a viewport that holds both.
C21_Mobile ==
    Returned("enhanced") =>
        /\ MobileScore.category = "Mobile-Friendliness"
        /\ MobileScore.score = (IF arg.viewport = <<>> THEN 50
                                ELSE IF ~HasWidth \/ ~HasScale THEN 75 ELSE 100)
        /\ MobileScore.impact = (IF arg.viewport # <<>> /\ HasWidth /\ HasScale
                                 THEN "positive" ELSE "negative")

C21_Witness ==
    /\ Returned("enhanced")
    /\ arg.viewport = <<"width=device-width">>
    /\ MobileScore.score = 75 /\ MobileScore.impact = "negative"
    /\ HasRecommendation("mobile-optimization", "Medium")

ImageScore == ret.report.detailedScores.imageOptimizationScore

\* the score and impact of analyzeImages for `with` of `total` images counted
\* as having alt text
ImageRule(total, with) ==
    IF total = 0 THEN [score |-> 100, impact |-> "neutral"]
    ELSE IF with < total
    THEN [score |-> CHOOSE x \in 0..100 :
                       LET diff == 2 * (total * (100 - x) - 50 * (total - with))
                       IN  -total < diff /\ diff <= total,
          impact |-> "negative"]
    ELSE [score |-> 100, impact |-> "positive"]

\* C22: analyzeImages returns 100 and neutral for a page without img elements;
\* otherwise, with altPercentage the percentage of img elements whose alt
\* attribute is not empty, 100 - round((100 - altPercentage) / 2) and negative
\* when altPercentage < 100, and 100 and positive when every img has a
\* non-empty alt.
C22_Images ==
    Returned("enhanced") =>
        LET rule == ImageRule(arg.totalImages, arg.imagesWithAltText)
        IN  ImageScore.score = rule.score /\ ImageScore.impact = rule.impact

Cost(missing, points) == IF missing THEN points ELSE 0

\* C23: analyzeTechnicalSEO returns 100 minus 10 for a missing canonical
\* link, 10 for a missing viewport meta, 5 for a missing robots meta, 5 when
\* any of og:title, og:description, og:image is missing, 5 for a missing
\* twitter:card meta and 10 for no JSON-LD script; the impact is negative
\* below 70, neutral from 70 to 89 and positive from 90.
C23_Technical ==
    pc = "done" =>
        /\ ret.category = "Technical SEO"
        /\ ret.score = 100 - Cost(~arg.canonical, 10) - Cost(arg.viewport = <<>>, 10)
                           - Cost(~arg.robots, 5)
                           - Cost(~(arg.ogTitle /\ arg.ogDescription /\ arg.ogImage), 5)
                           - Cost(~arg.twitterCard, 5) - Cost(~arg.jsonLd, 10)
        /\ ret.impact = (CASE ret.score < 70 -> "negative"
                           [] ret.score >= 70 /\ ret.score <= 89 -> "neutral"
                           [] ret.score >= 90 -> "positive")

C23_Witness ==
    /\ pc = "done"
    /\ ~arg.canonical /\ arg.viewport = <<>> /\ ~arg.jsonLd
    /\ arg.robots /\ arg.twitterCard
    /\ arg.ogTitle /\ ~arg.ogDescription /\ arg.ogImage
    /\ ret.score = 65 /\ ret.impact = "negative"

\* some keyword is a whole word of the lower-cased text
WholeWordIn(keywords, text) ==
    \E k \in keywords : \E i \in 1..Len(text) : k = Lower(text[i])

KeywordAdvice(score, place) ==
    \E i \in 1..Len(score.context) :
        score.context[i] = "Consider including a relevant keyword from the title in the " \o place

\* C24: the title keywords are the lower-cased title words longer than three
\* characters, and a keyword counts as present in the meta description or in
\* the H1 text only as a whole word: the keyword penalty is applied exactly
\* when no title keyword is a whole word of the text.
C24_WholeWord ==
    Returned("enhanced") =>
        /\ arg.description # <<>> =>
              (KeywordAdvice(ret.report.detailedScores.metaDescriptionScore, "meta description.")
                 <=> ~WholeWordIn(TitleKeywords(arg), arg.description))
        /\ arg.h1 # <<>> =>
              (KeywordAdvice(ret.report.detailedScores.headingsScore, "H1 tag.")
                 <=> ~WholeWordIn(TitleKeywords(arg), Join(arg.h1)))

MetaScore == ret.report.detailedScores.metaDescriptionScore

\* C25: analyzeMetaDescription returns 0 and negative for a missing or empty
\* description; otherwise 100, less 20 for a length below 120, less 10 for a
\* length above 160, less a further 10 exactly when no title keyword appears
\* in the description, with impact positive only for a length of 120..160.
C25_MetaDescription ==
    Returned("enhanced") =>
        LET len == TextLen(arg.description)
            appears == \E k \in TitleKeywords(arg) :
                          \E i \in 1..Len(arg.description) :
                              OccursIn(k, Lower(arg.description[i]))
        IN  /\ MetaScore.category = "Meta Description"
            /\ arg.description = <<>> =>
                  MetaScore.score = 0 /\ MetaScore.impact = "negative"
            /\ arg.description # <<>> =>
                  /\ MetaScore.score = 100 - Cost(len < 120, 20) - Cost(len > 160, 10)
                                           - Cost(~appears, 10)
                  /\ (MetaScore.impact = "positive") = (len >= 120 /\ len <= 160)
                  /\ len < 120 => MetaScore.impact = "negative"

C25_Witness ==
    /\ Returned("enhanced")
    /\ arg.title = <<"seo">>
    /\ TextLen(arg.description) = 197
    /\ MetaScore.score = 80 /\ MetaScore.impact = "neutral"

TriggeredBy(i, d) == ret[i].description = arg[DimensionRules[d].key].context

\* C27: no two recommendations of one list share an id, and the
\* recommendation of a dimension carries the same fixed slug for every input
\* that triggers it.
C27_UniqueStableIds ==
    pc = "done" =>
        /\ \A i \in 1..Len(ret) : \A j \in 1..Len(ret) : i # j => ret[i].id # ret[j].id
        /\ \A i \in 1..Len(ret) : \A d \in 1..8 :
              TriggeredBy(i, d) <=> ret[i].id = DimensionRules[d].id
        /\ \A d \in 1..8 : Below(d) => \E i \in 1..Len(ret) : TriggeredBy(i, d)

C27_Witness ==
    /\ pc = "done"
    /\ Len(ret) = 8
    /\ arg.titleScore.score = 69 /\ arg.metaDescriptionScore.score = 89
    /\ ret[1].id = "title-optimization" /\ ret[2].id = "meta-description-optimization"
    /\ \A i \in 1..8 : ret[i].id = DimensionRules[i].id

\* C28: every score the eight analyzers produce lies between 0 and 105, and
\* only the content score exceeds 100.
C28_ScoreRange ==
    Returned("enhanced") =>
        \A n \in AnalyzerNames :
            LET score == ret.report.detailedScores[n].score
            IN  /\ score >= 0 /\ score <= 105
                /\ score > 100 => n = "contentScore"

C28_Witness ==
    /\ Returned("enhanced")
    /\ ret.report.detailedScores.contentScore.score = 105
    /\ ret.report.detailedScores.titleScore.score = 100
    /\ ret.report.detailedScores.metaDescriptionScore.score = 0
    /\ ret.report.detailedScores.headingsScore.score = 60
    /\ ret.report.detailedScores.imageOptimizationScore.score = 50
    /\ ret.report.detailedScores.technicalScore.score = 55
    /\ ret.report.detailedScores.mobileFriendlinessScore.score = 50
    /\ ret.report.detailedScores.linkingStructureScore.score = 70

\* C29: every invocation of the handler sends exactly one response on every
\* path: none before the handler has finished, one when it has, and no path
\* stops before it; the status is 200 exactly when a report was produced, and
\* otherwise one of 400, 405, 500, 503 with an error message.
C29_OneResponse ==
    /\ pc # "responded" => responses = <<>> /\ ENABLED Next
    /\ pc = "responded" =>
          /\ Len(responses) = 1
          /\ (responses[1].status = 200) = (report # NoReport)
          /\ responses[1].status = 200 => responses[1].report = report
          /\ responses[1].status # 200 =>
                /\ responses[1].status \in {400, 405, 500, 503}
                /\ responses[1].error # <<>>

C29_Witness ==
    /\ pc = "responded"
    /\ Has("axios-ok") /\ Has("analysis-failed")
    /\ Len(responses) = 1 /\ responses[1].status = 500
    /\ report = NoReport

HasPenalty(texts) ==
    \E i \in 1..Len(ret.report.overallScore.penalties) :
        ret.report.overallScore.penalties[i] \in texts

HasBasicRecommendation(ids) ==
    \E i \in 1..Len(ret.report.recommendations) : ret.report.recommendations[i].id \in ids

\* C30: in the basic analyzer a title, meta-description, H1 or image-alt
\* penalty of calculateSEOScore is recorded exactly when generateRecommendations
\* emits the recommendation for the same issue, so the list of penalties and
\* the list of recommendations have the same length.
C30_PenaltiesRecommendations ==
    Returned("basic") =>
        /\ HasPenalty({"Missing title tag"}) = HasBasicRecommendation({"title-missing"})
        /\ HasPenalty({"Title too short (< 30 characters)", "Title too long (> 60 characters)"})
             = HasBasicRecommendation({"title-length"})
        /\ HasPenalty({"Missing meta description"}) = HasBasicRecommendation({"meta-desc-missing"})
        /\ HasPenalty({"Meta description too short (< 120 characters)",
                       "Meta description too long (> 160 characters)"})
             = HasBasicRecommendation({"meta-desc-length"})
        /\ HasPenalty({"Missing H1 tag"}) = HasBasicRecommendation({"h1-missing"})
        /\ HasPenalty({"Multiple H1 tags"}) = HasBasicRecommendation({"multiple-h1"})
        /\ HasPenalty({"100% of images missing alt text", "75% of images missing alt text"})
             = HasBasicRecommendation({"img-alt-missing"})
        /\ Len(ret.report.overallScore.penalties) = Len(ret.report.recommendations)

C30_Witness ==
    /\ Returned("basic")
    /\ TextLen(arg.title) = 65 /\ TextLen(arg.description) = 197
    /\ Len(arg.h1) = 2 /\ arg.totalImages = 4 /\ arg.imagesWithAlt = 1
    /\ Len(ret.report.overallScore.penalties) = 4
    /\ Len(ret.report.recommendations) = 4
    /\ ret.report.overallScore.score = 100 - 5 - 3 - 5 - 8

====
